---- MODULE Spec2Model ----
(***************************************************************************)
(* The control-centre front end (ui/app.js): the mirrored state, the DOM   *)
(* elements it renders into, the browser's timer table, the IPC calls in   *)
(* flight towards the Tauri backend, and one action per event handler or   *)
(* promise continuation.  JavaScript runs one task at a time: a handler,   *)
(* or the continuation that follows a settled IPC call up to its next      *)
(* await, is one atomic step.                                              *)
(***************************************************************************)
EXTENDS Integers, Sequences, FiniteSets, TLC

VARIABLES
    state,                   \* the `state` singleton (app.js 123-134)
    elements,                \* what the DOM elements currently display
    toast,                   \* elements.toast and the toastTimer handle
    volumeDebounceTimer,     \* handle held by the module-level variable
    brightnessDebounceTimer, \* handle held by the module-level variable
    timers,                  \* the browser's table of timers that can still fire
    inflight,                \* IPC calls dispatched and not yet settled, oldest first
    backend,                 \* the values the backend executor really holds
    listening,               \* the window-shown listener has been registered
    now,                     \* the clock
    sliderLog,               \* per slider: the latest commit event and the calls since
    activeElement,           \* document.activeElement: the element that has the focus
    undisturbed,             \* <<toggle in flight, value it found>>, until the value is written
    task,                    \* what the task that ran last did besides its writes
    mockLog,                 \* the calls made to mockInvoke directly, with their results
    lastEvent                \* the handler or continuation that ran last

vars == <<state, elements, toast, volumeDebounceTimer, brightnessDebounceTimer,
          timers, inflight, backend, listening, now, sliderLog, activeElement,
          undisturbed, task, mockLog, lastEvent>>

sliderVars == <<volumeDebounceTimer, brightnessDebounceTimer, sliderLog>>

(***************************************************************************)
(* Bounds of the model.                                                    *)
(***************************************************************************)
MaxInflight == 2
MaxTimers == 2
MaxFineTicks == 10
MaxBurst == 3
MaxKeyPresses == 2
MaxMockCalls == 2

(***************************************************************************)
(* Program constants.                                                      *)
(***************************************************************************)
DebounceDelay == 50
WifiRefreshDelay == 1000
ToastDuration == 2500
SuspendDelay == 100
FineStep == DebounceDelay \div 5
SuspendStep == SuspendDelay \div 5
WifiStep == WifiRefreshDelay \div 5
ToastStep == ToastDuration \div 5

NoSsid == "<null>"
Ssids == {NoSsid, "Home"}
RawInputs == {0 - 10, 0, 150}
DebounceInputs == {0, 150}
NoArg == "<none>"

Min(a, b) == IF a < b THEN a ELSE b
Max(a, b) == IF a > b THEN a ELSE b

RemoveAt(s, i) == SubSeq(s, 1, i - 1) \o SubSeq(s, i + 1, Len(s))

Count(s, cmd) == Cardinality({i \in 1..Len(s) : s[i].cmd = cmd})

(***************************************************************************)
(* Timers: setTimeout / clearTimeout.  A timer of the table carries the    *)
(* time that remains before it may fire.  A handle is "null" before the    *)
(* first setTimeout, "live" while the timer it names is still in the table *)
(* (it is then the youngest timer of its kind), "stale" once it has fired. *)
(***************************************************************************)
SetTimeout(tm, kind, rec) == [tm EXCEPT ![kind] = Append(@, rec)]

ClearTimeout(tm, kind, handle) ==
    IF handle = "live" /\ Len(tm[kind]) > 0
    THEN [tm EXCEPT ![kind] = SubSeq(@, 1, Len(@) - 1)]
    ELSE tm

\* The timer is kept running.
CancelPendingSkipped(tm, kind, handle) == tm

\* if (timer) clearTimeout(timer);
CancelPending(tm, kind, handle) ==
    IF handle # "null" THEN ClearTimeout(tm, kind, handle) ELSE tm

\* The callback may run before the delay is over.
DueAtOnce(t) == TRUE

\* A callback may run once the timer's delay is over.
Due(t) == t.remaining = 0

HandleAfterFire(handle, kind, i) ==
    IF handle = "live" /\ i = Len(timers[kind]) THEN "stale" ELSE handle

(***************************************************************************)
(* showToast (app.js 607-625): latest message wins, one dismiss timer.     *)
(***************************************************************************)
\* The time as read on a clock that advances once every ToastStep.
ToastClock == (now \div ToastStep) * ToastStep

\* The previous dismiss timer is left running.
ShowToastKeepsTimer(t, tm, message, type) ==
    [toast |-> [textContent |-> message, type |-> type, show |-> TRUE,
                timer |-> "live", shownAt |-> ToastClock],
     timers |-> SetTimeout(tm, "toast", [remaining |-> ToastDuration])]

\* shownAt is the time of the call, kept for the properties.
ShowToast(t, tm, message, type) ==
    LET cleared == CancelPending(tm, "toast", t.timer)
    IN  [toast |-> [textContent |-> message, type |-> type, show |-> TRUE,
                    timer |-> "live", shownAt |-> ToastClock],
         timers |-> SetTimeout(cleared, "toast", [remaining |-> ToastDuration])]

(***************************************************************************)
(* invoke (app.js 27-47): the catch block shows the error toast before it  *)
(* rethrows to the caller.                                                 *)
(***************************************************************************)
InvokeCatch(t, tm) == ShowToast(t, tm, "Error", "error")

\* A call in flight: the command, its argument, the continuation that awaits
\* it, whether the function awaiting it has already changed the mirror, and,
\* once the backend has executed the command with the answer still on its way,
\* the values the backend held when it did.
Chained(cmd, arg, cont, changed) ==
    [cmd |-> cmd, arg |-> arg, cont |-> cont, changed |-> changed, seen |-> << >>,
     overtaken |-> FALSE]

Call(cmd, arg, cont) == Chained(cmd, arg, cont, FALSE)

(***************************************************************************)
(* UI updates (app.js 307-358).                                            *)
(***************************************************************************)
Truthy(ssid) == ssid # NoSsid /\ ssid # ""

\* The SSID shown whenever the radio is associated, enabled or not.
WifiStatusTextIgnoresEnabled(st) ==
    IF st.wifiConnected /\ Truthy(st.wifiSsid) THEN st.wifiSsid
    ELSE IF st.wifiEnabled THEN "On"
    ELSE "Off"

WifiStatusText(st) ==
    IF st.wifiEnabled /\ st.wifiConnected /\ Truthy(st.wifiSsid) THEN st.wifiSsid
    ELSE IF st.wifiEnabled THEN "On"
    ELSE "Off"

UpdateVolumeUI(st, el) ==
    [el EXCEPT !.volumeSlider = st.volume, !.volumeFill = st.volume,
               !.mutedIcon = st.muted]

UpdateBrightnessUI(st, el) ==
    [el EXCEPT !.brightnessSlider = st.brightness, !.brightnessFill = st.brightness]

UpdateWifiUI(st, el) ==
    [el EXCEPT !.wifiTile = st.wifiEnabled, !.wifiStatus = WifiStatusText(st)]

UpdateBluetoothUI(st, el) ==
    [el EXCEPT !.bluetoothTile = st.bluetoothEnabled,
               !.bluetoothStatus = IF st.bluetoothEnabled THEN "On" ELSE "Off"]

UpdateNightLightUI(st, el) ==
    [el EXCEPT !.nightLightTile = st.nightLightEnabled,
               !.nightLightStatus = IF st.nightLightEnabled THEN "On" ELSE "Off"]

UpdateAllUI(st, el) ==
    UpdateNightLightUI(st, UpdateBluetoothUI(st, UpdateWifiUI(st,
        UpdateBrightnessUI(st, UpdateVolumeUI(st, el)))))

(***************************************************************************)
(* Initial state: the literals of app.js, the DOM as index.html ships it,  *)
(* and the DOMContentLoaded handler suspended at its first await.          *)
(***************************************************************************)
InitState ==
    [volume |-> 50, muted |-> FALSE, brightness |-> 50,
     wifiEnabled |-> FALSE, wifiConnected |-> FALSE, wifiSsid |-> NoSsid,
     bluetoothEnabled |-> FALSE, nightLightEnabled |-> FALSE,
     isLoading |-> TRUE, pendingOperations |-> {}]

InitElements ==
    [wifiTile |-> FALSE, bluetoothTile |-> FALSE, nightLightTile |-> FALSE,
     wifiStatus |-> "Off", bluetoothStatus |-> "Off", nightLightStatus |-> "Off",
     volumeSlider |-> 50, volumeFill |-> 50, mutedIcon |-> FALSE,
     brightnessSlider |-> 50, brightnessFill |-> 50]

InitToast ==
    [textContent |-> "", type |-> "info", show |-> FALSE, timer |-> "null", shownAt |-> 0]

\* A task that called showToast no time, left no rejection unhandled and was
\* neither the continuation of a call that returned a value nor a timer's
\* callback.
Quiet == [notify |-> 0, unhandledrejection |-> FALSE, returned |-> << >>, fired |-> << >>,
          late |-> FALSE]

\* The call the task continues had been overtaken: a call of the same function
\* issued after it was answered before it.
Late(tk, overtaken) == [tk EXCEPT !.late = overtaken]

\* The task is the callback of this timer.
Fired(tk, timer) == [tk EXCEPT !.fired = << timer >>]

\* The value the task's settled call returned to it.
Returned(tk, value) == [tk EXCEPT !.returned = << value >>]

\* One more call of showToast by the task.
Notify(tk) == [tk EXCEPT !.notify = @ + 1]

\* The task ended in a promise rejected with no handler attached.
Unhandled(tk) == [tk EXCEPT !.unhandledrejection = TRUE]

InitTimers == [volume |-> <<>>, brightness |-> <<>>, toast |-> <<>>,
               wifi |-> <<>>, suspend |-> <<>>]

NoCommit == [happened |-> FALSE, at |-> 0, value |-> 0, burst |-> 0, calls |-> 0,
             dispatched |-> FALSE, dispatchedAt |-> 0, keys |-> 0]

\* The values mockInvoke starts from (app.js 55-62).
InitBackend ==
    [volume |-> 50, muted |-> FALSE, brightness |-> 75,
     wifi |-> TRUE, bluetooth |-> FALSE, nightLight |-> FALSE]

Init ==
    /\ state = InitState
    /\ elements = InitElements
    /\ toast = InitToast
    /\ volumeDebounceTimer = "null"
    /\ brightnessDebounceTimer = "null"
    /\ timers = InitTimers
    /\ inflight = << Call("get_all_states", NoArg, "startup") >>
    /\ backend = InitBackend
    /\ listening = FALSE
    /\ now = 0
    /\ sliderLog = [volume |-> NoCommit, brightness |-> NoCommit]
    /\ activeElement = "body"
    /\ undisturbed = {}
    /\ task = Quiet
    /\ mockLog = << >>
    /\ lastEvent = "DOMContentLoaded"

(***************************************************************************)
(* The backend executor behind invoke: what each command does to the       *)
(* values it holds and what it returns.                                    *)
(***************************************************************************)
BackendAfter(b, c) ==
    CASE c.cmd = "set_volume" -> [b EXCEPT !.volume = c.arg]
      [] c.cmd = "set_brightness" -> [b EXCEPT !.brightness = c.arg]
      [] c.cmd = "toggle_mute" -> [b EXCEPT !.muted = ~b.muted]
      [] c.cmd = "set_wifi_enabled" -> [b EXCEPT !.wifi = c.arg]
      [] c.cmd = "set_bluetooth_enabled" -> [b EXCEPT !.bluetooth = c.arg]
      [] c.cmd = "set_night_light_enabled" -> [b EXCEPT !.nightLight = c.arg]
      [] OTHER -> b

\* The network part of a status answer: enablement is the backend's value,
\* association and SSID are whatever the radio reports at that moment.
NetworkAnswers(b) ==
    [wifi_enabled : {b.wifi}, wifi_connected : BOOLEAN, wifi_ssid : Ssids,
     bluetooth_enabled : {b.bluetooth}]

AllStatesAnswers(b) ==
    [volume : {[volume |-> b.volume, muted |-> b.muted]},
     brightness : {[brightness |-> b.brightness]},
     network : NetworkAnswers(b),
     display : {[night_light_enabled |-> b.nightLight]}]

\* The toggles' commands and the status fetches may be executed some time
\* before their answer is delivered, and answers may overtake one another.
Deferrable == {"set_wifi_enabled", "set_bluetooth_enabled", "set_night_light_enabled",
               "get_all_states", "get_wifi_status"}

Executed(c) == c.seen # << >>

\* The backend's values when the command was executed: those of an earlier
\* moment, or of the moment the answer is delivered.
Seen(b, c) == IF Executed(c) THEN c.seen[1] ELSE b

BackendOnSettle(b, c) == IF Executed(c) THEN b ELSE BackendAfter(b, c)

\* The backend validates percentages and rejects what is out of range.
Accepts(c) ==
    CASE c.cmd = "set_volume" -> c.arg \in 0..100
      [] c.cmd = "set_brightness" -> c.arg \in 0..100
      [] OTHER -> TRUE

\* The backend executes a command whose answer is delivered later.
BackendExecutes(i) ==
    /\ inflight[i].cmd \in Deferrable
    /\ ~Executed(inflight[i])
    /\ backend' = BackendAfter(backend, inflight[i])
    /\ inflight' = [inflight EXCEPT ![i].seen = << backend' >>]
    /\ lastEvent' = "backend:" \o inflight[i].cmd
    /\ mockLog' = mockLog
    /\ task' = Quiet
    /\ UNCHANGED <<state, elements, toast, sliderVars, timers, listening, activeElement,
                   now, undisturbed>>

(***************************************************************************)
(* Guarded toggles (app.js 454-523).                                       *)
(***************************************************************************)
IsPendingNever(op) == FALSE

IsPending(op) == op \in state.pendingOperations

\* Bookkeeping for the properties: a toggle is entered with the value it found
\* and leaves as soon as anything writes the mirrored value or it settles.
Disturb(u, op) == {p \in u : p[1] # op}

AddPending(st, op) == [st EXCEPT !.pendingOperations = @ \cup {op}]

DeletePending(st, op) == [st EXCEPT !.pendingOperations = @ \ {op}]

ToggleWifi ==
    /\ IF IsPending("wifi")
       THEN /\ lastEvent' = "toggleWifi:ignored"
            /\ mockLog' = mockLog
            /\ task' = Quiet
            /\ UNCHANGED <<state, elements, inflight, undisturbed>>
       ELSE /\ Len(inflight) < MaxInflight
            /\ Len(timers.wifi) < MaxTimers
            /\ lastEvent' = "toggleWifi"
            /\ mockLog' = mockLog
            /\ task' = Quiet
            /\ state' = AddPending(state, "wifi")
            /\ elements' = [elements EXCEPT !.wifiTile = ~state.wifiEnabled]
            /\ inflight' = Append(inflight,
                   Call("set_wifi_enabled", ~state.wifiEnabled, "toggleWifi"))
            /\ undisturbed' = undisturbed \cup {<<"wifi", state.wifiEnabled>>}
    /\ UNCHANGED <<toast, sliderVars, timers, backend, listening, activeElement, now>>

ToggleWifiResolved(i) ==
    /\ inflight[i].cont = "toggleWifi"
    /\ lastEvent' = "toggleWifi:resolved"
    /\ mockLog' = mockLog
    /\ task' = Quiet
    /\ backend' = BackendOnSettle(backend, inflight[i])
    /\ inflight' = RemoveAt(inflight, i)
    /\ state' = DeletePending([state EXCEPT !.wifiEnabled = inflight[i].arg], "wifi")
    /\ timers' = SetTimeout(timers, "wifi",
                            [remaining |-> WifiRefreshDelay, setAt |-> now])
    /\ undisturbed' = Disturb(undisturbed, "wifi")
    /\ UNCHANGED <<elements, toast, sliderVars, listening, activeElement, now>>

ToggleWifiRejected(i) ==
    /\ inflight[i].cont = "toggleWifi"
    /\ lastEvent' = "toggleWifi:rejected"
    /\ mockLog' = mockLog
    /\ task' = Notify(Quiet)
    /\ inflight' = RemoveAt(inflight, i)
    /\ LET shown == InvokeCatch(toast, timers)
           st == [state EXCEPT !.wifiEnabled = ~state.wifiEnabled]
       IN  /\ toast' = shown.toast
           /\ timers' = shown.timers
           /\ elements' = UpdateWifiUI(st, elements)
           /\ state' = DeletePending(st, "wifi")
    /\ undisturbed' = Disturb(undisturbed, "wifi")
    /\ UNCHANGED <<sliderVars, backend, listening, activeElement, now>>

\* The callback of the setTimeout in toggleWifi, up to its await.
WifiRefreshFire(i) ==
    /\ i \in 1..Len(timers.wifi)
    /\ Due(timers.wifi[i])
    /\ Len(inflight) < MaxInflight
    /\ lastEvent' = "wifiRefresh"
    /\ mockLog' = mockLog
    /\ task' = Fired(Quiet, timers.wifi[i])
    /\ timers' = [timers EXCEPT !.wifi = RemoveAt(@, i)]
    /\ inflight' = Append(inflight, Call("get_wifi_status", NoArg, "wifiRefresh"))
    /\ UNCHANGED <<state, elements, toast, sliderVars, backend, listening, activeElement, now,
                   undisturbed>>

\* A status fetch that arms the timer again.
WifiRefreshResolvedPolls(i) ==
    /\ inflight[i].cont = "wifiRefresh"
    /\ Len(timers.wifi) < MaxTimers
    /\ lastEvent' = "wifiRefresh:resolved"
    /\ mockLog' = mockLog
    /\ inflight' = RemoveAt(inflight, i)
    /\ \E networkState \in NetworkAnswers(Seen(backend, inflight[i])) :
         LET st == [state EXCEPT !.wifiEnabled = networkState.wifi_enabled,
                                 !.wifiConnected = networkState.wifi_connected,
                                 !.wifiSsid = networkState.wifi_ssid]
         IN  /\ task' = Returned(Quiet, networkState)
             /\ state' = st
             /\ elements' = UpdateWifiUI(st, elements)
    /\ timers' = SetTimeout(timers, "wifi",
                            [remaining |-> WifiRefreshDelay, setAt |-> now])
    /\ undisturbed' = Disturb(undisturbed, "wifi")
    /\ UNCHANGED <<toast, sliderVars, backend, listening, activeElement, now>>

WifiRefreshResolved(i) ==
    /\ inflight[i].cont = "wifiRefresh"
    /\ lastEvent' = "wifiRefresh:resolved"
    /\ mockLog' = mockLog
    /\ inflight' = RemoveAt(inflight, i)
    /\ \E networkState \in NetworkAnswers(Seen(backend, inflight[i])) :
         LET st == [state EXCEPT !.wifiEnabled = networkState.wifi_enabled,
                                 !.wifiConnected = networkState.wifi_connected,
                                 !.wifiSsid = networkState.wifi_ssid]
         IN  /\ task' = Returned(Quiet, networkState)
             /\ state' = st
             /\ elements' = UpdateWifiUI(st, elements)
    /\ undisturbed' = Disturb(undisturbed, "wifi")
    /\ UNCHANGED <<toast, sliderVars, timers, backend, listening, activeElement, now>>

\* The callback has no try/catch: only invoke's own catch block runs.
WifiRefreshRejected(i) ==
    /\ inflight[i].cont = "wifiRefresh"
    /\ lastEvent' = "wifiRefresh:rejected"
    /\ mockLog' = mockLog
    /\ task' = Unhandled(Notify(Quiet))
    /\ inflight' = RemoveAt(inflight, i)
    /\ LET shown == InvokeCatch(toast, timers)
       IN  toast' = shown.toast /\ timers' = shown.timers
    /\ UNCHANGED <<state, elements, sliderVars, backend, listening, activeElement, now,
                   undisturbed>>

\* The optimistic flip placed before the guard.
ToggleBluetoothFlipsFirst ==
    /\ elements' = [elements EXCEPT !.bluetoothTile = ~state.bluetoothEnabled]
    /\ IF IsPending("bluetooth")
       THEN /\ lastEvent' = "toggleBluetooth:ignored"
            /\ mockLog' = mockLog
            /\ task' = Quiet
            /\ UNCHANGED <<state, inflight, undisturbed>>
       ELSE /\ Len(inflight) < MaxInflight
            /\ lastEvent' = "toggleBluetooth"
            /\ mockLog' = mockLog
            /\ task' = Quiet
            /\ state' = AddPending(state, "bluetooth")
            /\ inflight' = Append(inflight,
                   Call("set_bluetooth_enabled", ~state.bluetoothEnabled,
                        "toggleBluetooth"))
            /\ undisturbed' = undisturbed \cup {<<"bluetooth", state.bluetoothEnabled>>}
    /\ UNCHANGED <<toast, sliderVars, timers, backend, listening, activeElement, now>>

ToggleBluetooth ==
    /\ IF IsPending("bluetooth")
       THEN /\ lastEvent' = "toggleBluetooth:ignored"
            /\ mockLog' = mockLog
            /\ task' = Quiet
            /\ UNCHANGED <<state, elements, inflight, undisturbed>>
       ELSE /\ Len(inflight) < MaxInflight
            /\ lastEvent' = "toggleBluetooth"
            /\ mockLog' = mockLog
            /\ task' = Quiet
            /\ state' = AddPending(state, "bluetooth")
            /\ elements' = [elements EXCEPT !.bluetoothTile = ~state.bluetoothEnabled]
            /\ inflight' = Append(inflight,
                   Call("set_bluetooth_enabled", ~state.bluetoothEnabled,
                        "toggleBluetooth"))
            /\ undisturbed' = undisturbed \cup {<<"bluetooth", state.bluetoothEnabled>>}
    /\ UNCHANGED <<toast, sliderVars, timers, backend, listening, activeElement, now>>

\* The success path without the assignment of newState.
ToggleBluetoothResolvedKeepsMirror(i) ==
    /\ inflight[i].cont = "toggleBluetooth"
    /\ lastEvent' = "toggleBluetooth:resolved"
    /\ mockLog' = mockLog
    /\ task' = Quiet
    /\ backend' = BackendOnSettle(backend, inflight[i])
    /\ inflight' = RemoveAt(inflight, i)
    /\ elements' = UpdateBluetoothUI(state, elements)
    /\ state' = DeletePending(state, "bluetooth")
    /\ undisturbed' = Disturb(undisturbed, "bluetooth")
    /\ UNCHANGED <<toast, sliderVars, timers, listening, activeElement, now>>

ToggleBluetoothResolved(i) ==
    /\ inflight[i].cont = "toggleBluetooth"
    /\ lastEvent' = "toggleBluetooth:resolved"
    /\ mockLog' = mockLog
    /\ task' = Quiet
    /\ backend' = BackendOnSettle(backend, inflight[i])
    /\ inflight' = RemoveAt(inflight, i)
    /\ LET st == [state EXCEPT !.bluetoothEnabled = inflight[i].arg]
       IN  /\ elements' = UpdateBluetoothUI(st, elements)
           /\ state' = DeletePending(st, "bluetooth")
    /\ undisturbed' = Disturb(undisturbed, "bluetooth")
    /\ UNCHANGED <<toast, sliderVars, timers, listening, activeElement, now>>

ToggleBluetoothRejected(i) ==
    /\ inflight[i].cont = "toggleBluetooth"
    /\ lastEvent' = "toggleBluetooth:rejected"
    /\ mockLog' = mockLog
    /\ task' = Notify(Quiet)
    /\ inflight' = RemoveAt(inflight, i)
    /\ LET shown == InvokeCatch(toast, timers)
           st == [state EXCEPT !.bluetoothEnabled = ~state.bluetoothEnabled]
       IN  /\ toast' = shown.toast
           /\ timers' = shown.timers
           /\ elements' = UpdateBluetoothUI(st, elements)
           /\ state' = DeletePending(st, "bluetooth")
    /\ undisturbed' = Disturb(undisturbed, "bluetooth")
    /\ UNCHANGED <<sliderVars, backend, listening, activeElement, now>>

ToggleNightLight ==
    /\ IF IsPending("nightLight")
       THEN /\ lastEvent' = "toggleNightLight:ignored"
            /\ mockLog' = mockLog
            /\ task' = Quiet
            /\ UNCHANGED <<state, elements, inflight, undisturbed>>
       ELSE /\ Len(inflight) < MaxInflight
            /\ lastEvent' = "toggleNightLight"
            /\ mockLog' = mockLog
            /\ task' = Quiet
            /\ state' = AddPending(state, "nightLight")
            /\ elements' = [elements EXCEPT !.nightLightTile = ~state.nightLightEnabled]
            /\ inflight' = Append(inflight,
                   Call("set_night_light_enabled", ~state.nightLightEnabled,
                        "toggleNightLight"))
            /\ undisturbed' = undisturbed \cup {<<"nightLight", state.nightLightEnabled>>}
    /\ UNCHANGED <<toast, sliderVars, timers, backend, listening, activeElement, now>>

ToggleNightLightResolved(i) ==
    /\ inflight[i].cont = "toggleNightLight"
    /\ lastEvent' = "toggleNightLight:resolved"
    /\ mockLog' = mockLog
    /\ task' = Quiet
    /\ backend' = BackendOnSettle(backend, inflight[i])
    /\ inflight' = RemoveAt(inflight, i)
    /\ LET st == [state EXCEPT !.nightLightEnabled = inflight[i].arg]
       IN  /\ elements' = UpdateNightLightUI(st, elements)
           /\ state' = DeletePending(st, "nightLight")
    /\ undisturbed' = Disturb(undisturbed, "nightLight")
    /\ UNCHANGED <<toast, sliderVars, timers, listening, activeElement, now>>

\* The failure path without its finally block.
ToggleNightLightRejectedKeepsPending(i) ==
    /\ inflight[i].cont = "toggleNightLight"
    /\ lastEvent' = "toggleNightLight:rejected"
    /\ mockLog' = mockLog
    /\ task' = Notify(Quiet)
    /\ inflight' = RemoveAt(inflight, i)
    /\ LET shown == InvokeCatch(toast, timers)
           st == [state EXCEPT !.nightLightEnabled = ~state.nightLightEnabled]
       IN  /\ toast' = shown.toast
           /\ timers' = shown.timers
           /\ elements' = UpdateNightLightUI(st, elements)
           /\ state' = st
    /\ undisturbed' = Disturb(undisturbed, "nightLight")
    /\ UNCHANGED <<sliderVars, backend, listening, activeElement, now>>

ToggleNightLightRejected(i) ==
    /\ inflight[i].cont = "toggleNightLight"
    /\ lastEvent' = "toggleNightLight:rejected"
    /\ mockLog' = mockLog
    /\ task' = Notify(Quiet)
    /\ inflight' = RemoveAt(inflight, i)
    /\ LET shown == InvokeCatch(toast, timers)
           st == [state EXCEPT !.nightLightEnabled = ~state.nightLightEnabled]
       IN  /\ toast' = shown.toast
           /\ timers' = shown.timers
           /\ elements' = UpdateNightLightUI(st, elements)
           /\ state' = DeletePending(st, "nightLight")
    /\ undisturbed' = Disturb(undisturbed, "nightLight")
    /\ UNCHANGED <<sliderVars, backend, listening, activeElement, now>>

(***************************************************************************)
(* State loading (app.js 174-189, 262-301).                                *)
(***************************************************************************)
ShowLoading(st) == [st EXCEPT !.isLoading = TRUE]

HideLoading(st) == [st EXCEPT !.isLoading = FALSE]

\* The snapshot applied without its brightness.
ApplyAllStatesSkipsBrightness(st, allStates) ==
    [st EXCEPT !.volume = allStates.volume.volume,
               !.muted = allStates.volume.muted,
               !.wifiEnabled = allStates.network.wifi_enabled,
               !.wifiConnected = allStates.network.wifi_connected,
               !.wifiSsid = allStates.network.wifi_ssid,
               !.bluetoothEnabled = allStates.network.bluetooth_enabled,
               !.nightLightEnabled = allStates.display.night_light_enabled]

ApplyAllStates(st, allStates) ==
    [st EXCEPT !.volume = allStates.volume.volume,
               !.muted = allStates.volume.muted,
               !.brightness = allStates.brightness.brightness,
               !.wifiEnabled = allStates.network.wifi_enabled,
               !.wifiConnected = allStates.network.wifi_connected,
               !.wifiSsid = allStates.network.wifi_ssid,
               !.bluetoothEnabled = allStates.network.bluetooth_enabled,
               !.nightLightEnabled = allStates.display.night_light_enabled]

\* The window-shown listener: loadInitialState up to its await.
WindowShown ==
    /\ listening
    /\ Len(inflight) < MaxInflight
    /\ lastEvent' = "window-shown"
    /\ mockLog' = mockLog
    /\ task' = Quiet
    /\ state' = ShowLoading(state)
    /\ inflight' = Append(inflight, Call("get_all_states", NoArg, "loadInitialState"))
    /\ UNCHANGED <<elements, toast, sliderVars, timers, backend, listening, activeElement, now,
                   undisturbed>>

IsLoad(c) == c.cont \in {"startup", "loadInitialState"}

\* The loads issued before the i-th call are overtaken by its answer.
Overtaken(calls, i) ==
    [j \in 1..Len(calls) |->
        IF j < i /\ IsLoad(calls[j]) THEN [calls[j] EXCEPT !.overtaken = TRUE]
        ELSE calls[j]]

\* loadInitialState after its await; at startup the DOMContentLoaded handler
\* then registers the listener and hides the overlay once more.
LoadResolved(i) ==
    /\ IsLoad(inflight[i])
    /\ lastEvent' = "loadInitialState:resolved"
    /\ mockLog' = mockLog
    /\ inflight' = RemoveAt(Overtaken(inflight, i), i)
    /\ \E allStates \in AllStatesAnswers(Seen(backend, inflight[i])) :
         LET st == ApplyAllStates(state, allStates)
         IN  /\ task' = Late(Returned(Quiet, allStates), inflight[i].overtaken)
             /\ elements' = UpdateAllUI(st, elements)
             /\ state' = HideLoading(st)
    /\ listening' = (listening \/ inflight[i].cont = "startup")
    /\ undisturbed' = {}
    /\ UNCHANGED <<toast, sliderVars, timers, backend, now, activeElement>>

\* loadInitialState with a catch block that shows no toast of its own.
LoadRejectedOnce(i) ==
    /\ IsLoad(inflight[i])
    /\ lastEvent' = "loadInitialState:rejected"
    /\ mockLog' = mockLog
    /\ task' = Notify(Quiet)
    /\ inflight' = RemoveAt(inflight, i)
    /\ LET shown == InvokeCatch(toast, timers)
       IN  toast' = shown.toast /\ timers' = shown.timers
    /\ state' = HideLoading(state)
    /\ listening' = (listening \/ inflight[i].cont = "startup")
    /\ UNCHANGED <<elements, sliderVars, backend, now, activeElement, undisturbed>>

\* get_all_states failed: invoke's catch block shows its toast, then the catch
\* block of loadInitialState shows another; finally hideLoading, and at
\* startup the DOMContentLoaded handler goes on.
LoadRejected(i) ==
    /\ IsLoad(inflight[i])
    /\ lastEvent' = "loadInitialState:rejected"
    /\ mockLog' = mockLog
    /\ task' = Notify(Notify(Quiet))
    /\ inflight' = RemoveAt(inflight, i)
    /\ LET first == InvokeCatch(toast, timers)
           second == ShowToast(first.toast, first.timers,
                               "Failed to load system state", "error")
       IN  toast' = second.toast /\ timers' = second.timers
    /\ state' = HideLoading(state)
    /\ listening' = (listening \/ inflight[i].cont = "startup")
    /\ UNCHANGED <<elements, sliderVars, backend, now, activeElement, undisturbed>>

(***************************************************************************)
(* Volume control (app.js 364-410).  The user works the slider that has   *)
(* the focus.                                                              *)
(***************************************************************************)
Sliders == {"volumeSlider", "brightnessSlider"}

\* The user takes up a slider.
FocusSlider(el) ==
    /\ activeElement = "body"
    /\ activeElement' = el
    /\ lastEvent' = "focus"
    /\ mockLog' = mockLog
    /\ task' = Quiet
    /\ UNCHANGED <<state, elements, toast, sliderVars, timers, inflight, backend,
                   listening, now, undisturbed>>

\* What the debounce properties observe of a slider: its last change event
\* (when, with which value, as which member of a burst of events each less than
\* the debounce delay after the one before) and the set calls dispatched since.
Committed(log, value) ==
    [log EXCEPT !.happened = TRUE, !.at = now, !.value = value, !.calls = 0,
                !.burst = IF log.happened /\ now - log.at < DebounceDelay
                          THEN Min(@ + 1, MaxBurst) ELSE 1]

Dispatched(log) ==
    [log EXCEPT !.calls = @ + 1, !.dispatched = TRUE, !.dispatchedAt = now]

\* An input event that also commits the value.
HandleVolumeInputCommits(value) ==
    /\ activeElement = "volumeSlider"
    /\ Len(timers.volume) < MaxTimers
    /\ lastEvent' = "handleVolumeInput"
    /\ mockLog' = mockLog
    /\ task' = Quiet
    /\ state' = [state EXCEPT !.volume = value]
    /\ elements' = [elements EXCEPT !.volumeSlider = value, !.volumeFill = value]
    /\ timers' = SetTimeout(timers, "volume",
                            [remaining |-> DebounceDelay, value |-> value])
    /\ UNCHANGED <<toast, sliderVars, inflight, backend, listening, activeElement, now,
                   undisturbed>>

\* An input event: the slider has been moved to `value`.
HandleVolumeInput(value) ==
    /\ activeElement = "volumeSlider"
    /\ lastEvent' = "handleVolumeInput"
    /\ mockLog' = mockLog
    /\ task' = Quiet
    /\ state' = [state EXCEPT !.volume = value]
    /\ elements' = [elements EXCEPT !.volumeSlider = value, !.volumeFill = value]
    /\ UNCHANGED <<toast, sliderVars, timers, inflight, backend, listening, activeElement, now,
                   undisturbed>>

\* A change event: the value is the slider's at that moment.
HandleVolumeChange ==
    LET value == elements.volumeSlider
        cleared == CancelPending(timers, "volume", volumeDebounceTimer)
    IN  /\ activeElement = "volumeSlider"
        /\ Len(cleared.volume) < MaxTimers
        /\ lastEvent' = "handleVolumeChange"
        /\ mockLog' = mockLog
        /\ task' = Quiet
        /\ timers' = SetTimeout(cleared, "volume",
                                [remaining |-> DebounceDelay, value |-> value])
        /\ volumeDebounceTimer' = "live"
        /\ sliderLog' = [sliderLog EXCEPT !.volume = Committed(@, value)]
        /\ UNCHANGED <<state, elements, toast, brightnessDebounceTimer, inflight,
                       backend, listening, activeElement, now, undisturbed>>

\* The debounce timer's callback, up to its await.
VolumeDebounceFire(i) ==
    /\ i \in 1..Len(timers.volume)
    /\ Due(timers.volume[i])
    /\ Len(inflight) < MaxInflight
    /\ lastEvent' = "volumeDebounce"
    /\ mockLog' = mockLog
    /\ task' = Quiet
    /\ inflight' = Append(inflight,
           Call("set_volume", timers.volume[i].value, "volumeDebounce"))
    /\ timers' = [timers EXCEPT !.volume = RemoveAt(@, i)]
    /\ volumeDebounceTimer' = HandleAfterFire(volumeDebounceTimer, "volume", i)
    /\ sliderLog' = [sliderLog EXCEPT !.volume = Dispatched(@)]
    /\ UNCHANGED <<state, elements, toast, brightnessDebounceTimer, backend,
                   listening, activeElement, now, undisturbed>>

SetVolumeResolved(i) ==
    /\ inflight[i].cont = "volumeDebounce"
    /\ Accepts(inflight[i])
    /\ lastEvent' = "set_volume:resolved"
    /\ mockLog' = mockLog
    /\ task' = Quiet
    /\ backend' = BackendAfter(backend, inflight[i])
    /\ inflight' = RemoveAt(inflight, i)
    /\ UNCHANGED <<state, elements, toast, sliderVars, timers, listening, activeElement, now,
                   undisturbed>>

\* The catch block of the callback: refreshVolume up to its first await.
SetVolumeRejected(i) ==
    /\ inflight[i].cont = "volumeDebounce"
    /\ lastEvent' = "set_volume:rejected"
    /\ mockLog' = mockLog
    /\ task' = Notify(Quiet)
    /\ LET shown == InvokeCatch(toast, timers)
       IN  toast' = shown.toast /\ timers' = shown.timers
    /\ inflight' = Append(RemoveAt(inflight, i),
                          Call("get_volume", NoArg, "refreshVolume"))
    /\ UNCHANGED <<state, elements, sliderVars, backend, listening, activeElement, now,
                   undisturbed>>

\* refreshVolume between its two awaits.
GetVolumeResolved(i) ==
    /\ inflight[i].cont = "refreshVolume"
    /\ inflight[i].cmd = "get_volume"
    /\ lastEvent' = "get_volume:resolved"
    /\ mockLog' = mockLog
    /\ task' = Quiet
    /\ state' = [state EXCEPT !.volume = backend.volume]
    /\ inflight' = Append(RemoveAt(inflight, i),
                          Chained("get_mute_status", NoArg, "refreshVolume",
                                  state.volume # backend.volume))
    /\ UNCHANGED <<elements, toast, sliderVars, timers, backend, listening, activeElement, now,
                   undisturbed>>

GetVolumeRejected(i) ==
    /\ inflight[i].cont = "refreshVolume"
    /\ inflight[i].cmd = "get_volume"
    /\ lastEvent' = "get_volume:rejected"
    /\ mockLog' = mockLog
    /\ task' = Notify(Quiet)
    /\ inflight' = RemoveAt(inflight, i)
    /\ LET shown == InvokeCatch(toast, timers)
       IN  toast' = shown.toast /\ timers' = shown.timers
    /\ UNCHANGED <<state, elements, sliderVars, backend, listening, activeElement, now,
                   undisturbed>>

GetMuteStatusResolved(i) ==
    /\ inflight[i].cont = "refreshVolume"
    /\ inflight[i].cmd = "get_mute_status"
    /\ lastEvent' = "get_mute_status:resolved"
    /\ mockLog' = mockLog
    /\ task' = Quiet
    /\ inflight' = RemoveAt(inflight, i)
    /\ LET st == [state EXCEPT !.muted = backend.muted]
       IN  state' = st /\ elements' = UpdateVolumeUI(st, elements)
    /\ UNCHANGED <<toast, sliderVars, timers, backend, listening, activeElement, now, undisturbed>>

GetMuteStatusRejected(i) ==
    /\ inflight[i].cont = "refreshVolume"
    /\ inflight[i].cmd = "get_mute_status"
    /\ lastEvent' = "get_mute_status:rejected"
    /\ mockLog' = mockLog
    /\ task' = Notify(Quiet)
    /\ inflight' = RemoveAt(inflight, i)
    /\ LET shown == InvokeCatch(toast, timers)
       IN  toast' = shown.toast /\ timers' = shown.timers
    /\ UNCHANGED <<state, elements, sliderVars, backend, listening, activeElement, now,
                   undisturbed>>

\* toggleMute behind a guard on an outstanding toggle_mute call.
ToggleMuteGuarded ==
    /\ Len(inflight) < MaxInflight
    /\ lastEvent' = "toggleMute"
    /\ mockLog' = mockLog
    /\ task' = Quiet
    /\ inflight' = IF Count(inflight, "toggle_mute") > 0 THEN inflight
                   ELSE Append(inflight, Call("toggle_mute", NoArg, "toggleMute"))
    /\ UNCHANGED <<state, elements, toast, sliderVars, timers, backend, listening, activeElement,
                   now, undisturbed>>

\* toggleMute up to its await: there is no guard.
ToggleMute ==
    /\ Len(inflight) < MaxInflight
    /\ lastEvent' = "toggleMute"
    /\ mockLog' = mockLog
    /\ task' = Quiet
    /\ inflight' = Append(inflight, Call("toggle_mute", NoArg, "toggleMute"))
    /\ UNCHANGED <<state, elements, toast, sliderVars, timers, backend, listening, activeElement,
                   now, undisturbed>>

ToggleMuteResolved(i) ==
    /\ inflight[i].cont = "toggleMute"
    /\ lastEvent' = "toggleMute:resolved"
    /\ mockLog' = mockLog
    /\ task' = Quiet
    /\ backend' = BackendAfter(backend, inflight[i])
    /\ inflight' = RemoveAt(inflight, i)
    /\ LET st == [state EXCEPT !.muted = backend'.muted]
       IN  state' = st /\ elements' = UpdateVolumeUI(st, elements)
    /\ UNCHANGED <<toast, sliderVars, timers, listening, activeElement, now, undisturbed>>

\* A failure path that negates the mirrored value as the guarded toggles do.
ToggleMuteRejectedFlips(i) ==
    /\ inflight[i].cont = "toggleMute"
    /\ lastEvent' = "toggleMute:rejected"
    /\ mockLog' = mockLog
    /\ task' = Notify(Quiet)
    /\ inflight' = RemoveAt(inflight, i)
    /\ LET shown == InvokeCatch(toast, timers)
           st == [state EXCEPT !.muted = ~state.muted]
       IN  /\ toast' = shown.toast
           /\ timers' = shown.timers
           /\ state' = st
           /\ elements' = UpdateVolumeUI(st, elements)
    /\ UNCHANGED <<sliderVars, backend, listening, activeElement, now, undisturbed>>

ToggleMuteRejected(i) ==
    /\ inflight[i].cont = "toggleMute"
    /\ lastEvent' = "toggleMute:rejected"
    /\ mockLog' = mockLog
    /\ task' = Notify(Quiet)
    /\ inflight' = RemoveAt(inflight, i)
    /\ LET shown == InvokeCatch(toast, timers)
       IN  toast' = shown.toast /\ timers' = shown.timers
    /\ UNCHANGED <<state, elements, sliderVars, backend, listening, activeElement, now,
                   undisturbed>>

(***************************************************************************)
(* Brightness control (app.js 416-448).                                    *)
(***************************************************************************)
HandleBrightnessInput(value) ==
    /\ activeElement = "brightnessSlider"
    /\ lastEvent' = "handleBrightnessInput"
    /\ mockLog' = mockLog
    /\ task' = Quiet
    /\ state' = [state EXCEPT !.brightness = value]
    /\ elements' = [elements EXCEPT !.brightnessSlider = value,
                                    !.brightnessFill = value]
    /\ UNCHANGED <<toast, sliderVars, timers, inflight, backend, listening, activeElement, now,
                   undisturbed>>

\* A change event that leaves the timer of the one before running.
HandleBrightnessChangeKeepsTimer ==
    LET value == elements.brightnessSlider
    IN  /\ activeElement = "brightnessSlider"
        /\ Len(timers.brightness) < MaxTimers
        /\ lastEvent' = "handleBrightnessChange"
        /\ mockLog' = mockLog
        /\ task' = Quiet
        /\ timers' = SetTimeout(timers, "brightness",
                                [remaining |-> DebounceDelay, value |-> value])
        /\ brightnessDebounceTimer' = "live"
        /\ sliderLog' = [sliderLog EXCEPT !.brightness = Committed(@, value)]
        /\ UNCHANGED <<state, elements, toast, volumeDebounceTimer, inflight,
                       backend, listening, activeElement, now, undisturbed>>

HandleBrightnessChange ==
    LET value == elements.brightnessSlider
        cleared == CancelPending(timers, "brightness", brightnessDebounceTimer)
    IN  /\ activeElement = "brightnessSlider"
        /\ Len(cleared.brightness) < MaxTimers
        /\ lastEvent' = "handleBrightnessChange"
        /\ mockLog' = mockLog
        /\ task' = Quiet
        /\ timers' = SetTimeout(cleared, "brightness",
                                [remaining |-> DebounceDelay, value |-> value])
        /\ brightnessDebounceTimer' = "live"
        /\ sliderLog' = [sliderLog EXCEPT !.brightness = Committed(@, value)]
        /\ UNCHANGED <<state, elements, toast, volumeDebounceTimer, inflight,
                       backend, listening, activeElement, now, undisturbed>>

BrightnessDebounceFire(i) ==
    /\ i \in 1..Len(timers.brightness)
    /\ Due(timers.brightness[i])
    /\ Len(inflight) < MaxInflight
    /\ lastEvent' = "brightnessDebounce"
    /\ mockLog' = mockLog
    /\ task' = Quiet
    /\ inflight' = Append(inflight,
           Call("set_brightness", timers.brightness[i].value, "brightnessDebounce"))
    /\ timers' = [timers EXCEPT !.brightness = RemoveAt(@, i)]
    /\ brightnessDebounceTimer' =
           HandleAfterFire(brightnessDebounceTimer, "brightness", i)
    /\ sliderLog' = [sliderLog EXCEPT !.brightness = Dispatched(@)]
    /\ UNCHANGED <<state, elements, toast, volumeDebounceTimer, backend,
                   listening, activeElement, now, undisturbed>>

SetBrightnessResolved(i) ==
    /\ inflight[i].cont = "brightnessDebounce"
    /\ Accepts(inflight[i])
    /\ lastEvent' = "set_brightness:resolved"
    /\ mockLog' = mockLog
    /\ task' = Quiet
    /\ backend' = BackendAfter(backend, inflight[i])
    /\ inflight' = RemoveAt(inflight, i)
    /\ UNCHANGED <<state, elements, toast, sliderVars, timers, listening, activeElement, now,
                   undisturbed>>

\* The catch block without refreshBrightness.
SetBrightnessRejectedNoRefresh(i) ==
    /\ inflight[i].cont = "brightnessDebounce"
    /\ lastEvent' = "set_brightness:rejected"
    /\ mockLog' = mockLog
    /\ task' = Notify(Quiet)
    /\ LET shown == InvokeCatch(toast, timers)
       IN  toast' = shown.toast /\ timers' = shown.timers
    /\ inflight' = RemoveAt(inflight, i)
    /\ UNCHANGED <<state, elements, sliderVars, backend, listening, activeElement, now,
                   undisturbed>>

\* The catch block of the callback: refreshBrightness up to its await.
SetBrightnessRejected(i) ==
    /\ inflight[i].cont = "brightnessDebounce"
    /\ lastEvent' = "set_brightness:rejected"
    /\ mockLog' = mockLog
    /\ task' = Notify(Quiet)
    /\ LET shown == InvokeCatch(toast, timers)
       IN  toast' = shown.toast /\ timers' = shown.timers
    /\ inflight' = Append(RemoveAt(inflight, i),
                          Call("get_brightness", NoArg, "refreshBrightness"))
    /\ UNCHANGED <<state, elements, sliderVars, backend, listening, activeElement, now,
                   undisturbed>>

GetBrightnessResolved(i) ==
    /\ inflight[i].cont = "refreshBrightness"
    /\ lastEvent' = "get_brightness:resolved"
    /\ mockLog' = mockLog
    /\ task' = Quiet
    /\ inflight' = RemoveAt(inflight, i)
    /\ LET st == [state EXCEPT !.brightness = backend.brightness]
       IN  state' = st /\ elements' = UpdateBrightnessUI(st, elements)
    /\ UNCHANGED <<toast, sliderVars, timers, backend, listening, activeElement, now, undisturbed>>

GetBrightnessRejected(i) ==
    /\ inflight[i].cont = "refreshBrightness"
    /\ lastEvent' = "get_brightness:rejected"
    /\ mockLog' = mockLog
    /\ task' = Notify(Quiet)
    /\ inflight' = RemoveAt(inflight, i)
    /\ LET shown == InvokeCatch(toast, timers)
       IN  toast' = shown.toast /\ timers' = shown.timers
    /\ UNCHANGED <<state, elements, sliderVars, backend, listening, activeElement, now,
                   undisturbed>>

(***************************************************************************)
(* Suspend and the window (app.js 525-553).                                *)
(***************************************************************************)
\* suspendSystem up to the await inside closeWindow: there is no guard.
SuspendSystem ==
    /\ Len(inflight) < MaxInflight
    /\ Len(timers.suspend) + Count(inflight, "close_window") < MaxTimers
    /\ lastEvent' = "suspendSystem"
    /\ mockLog' = mockLog
    /\ task' = Notify(Quiet)
    /\ LET shown == ShowToast(toast, timers, "Suspending...", "success")
       IN  toast' = shown.toast /\ timers' = shown.timers
    /\ inflight' = Append(inflight, Call("close_window", NoArg, "suspendSystem"))
    /\ UNCHANGED <<state, elements, sliderVars, backend, listening, activeElement,
                   now, undisturbed>>

\* close_window succeeded: closeWindow returns and suspendSystem sets its timer.
SuspendCloseResolved(i) ==
    /\ inflight[i].cont = "suspendSystem"
    /\ lastEvent' = "suspendSystem:close_window:resolved"
    /\ mockLog' = mockLog
    /\ task' = Quiet
    /\ inflight' = RemoveAt(inflight, i)
    /\ timers' = SetTimeout(timers, "suspend",
                            [remaining |-> SuspendDelay, setAt |-> now, closed |-> TRUE])
    /\ UNCHANGED <<state, elements, toast, sliderVars, backend, listening,
                   activeElement, now, undisturbed>>

\* close_window failed and closeWindow let the rejection through: the catch
\* block of suspendSystem reports it and no timer is set.
SuspendCloseRejectedAborts(i) ==
    /\ inflight[i].cont = "suspendSystem"
    /\ lastEvent' = "suspendSystem:close_window:rejected"
    /\ mockLog' = mockLog
    /\ task' = Notify(Notify(Quiet))
    /\ inflight' = RemoveAt(inflight, i)
    /\ LET first == InvokeCatch(toast, timers)
           second == ShowToast(first.toast, first.timers, "Failed to suspend", "error")
       IN  toast' = second.toast /\ timers' = second.timers
    /\ UNCHANGED <<state, elements, sliderVars, backend, listening, activeElement,
                   now, undisturbed>>

\* close_window failed: invoke's catch shows the toast, closeWindow's catch
\* swallows the rejection, and suspendSystem sets its timer all the same.
SuspendCloseRejected(i) ==
    /\ inflight[i].cont = "suspendSystem"
    /\ lastEvent' = "suspendSystem:close_window:rejected"
    /\ mockLog' = mockLog
    /\ task' = Notify(Quiet)
    /\ inflight' = RemoveAt(inflight, i)
    /\ LET shown == InvokeCatch(toast, timers)
       IN  /\ toast' = shown.toast
           /\ timers' = SetTimeout(shown.timers, "suspend",
                  [remaining |-> SuspendDelay, setAt |-> now, closed |-> FALSE])
    /\ UNCHANGED <<state, elements, sliderVars, backend, listening, activeElement,
                   now, undisturbed>>

\* The callback of the setTimeout in suspendSystem, up to its await.
SuspendFire(i) ==
    /\ i \in 1..Len(timers.suspend)
    /\ Due(timers.suspend[i])
    /\ Len(inflight) < MaxInflight
    /\ lastEvent' = "suspendCallback"
    /\ mockLog' = mockLog
    /\ task' = Fired(Quiet, timers.suspend[i])
    /\ timers' = [timers EXCEPT !.suspend = RemoveAt(@, i)]
    /\ inflight' = Append(inflight, Call("suspend_system", NoArg, "suspendCallback"))
    /\ UNCHANGED <<state, elements, toast, sliderVars, backend, listening,
                   activeElement, now, undisturbed>>

SuspendSystemResolved(i) ==
    /\ inflight[i].cont = "suspendCallback"
    /\ lastEvent' = "suspend_system:resolved"
    /\ mockLog' = mockLog
    /\ task' = Quiet
    /\ backend' = BackendAfter(backend, inflight[i])
    /\ inflight' = RemoveAt(inflight, i)
    /\ UNCHANGED <<state, elements, toast, sliderVars, timers, listening,
                   activeElement, now, undisturbed>>

\* The callback has no try/catch: only invoke's own catch block runs.
SuspendSystemRejected(i) ==
    /\ inflight[i].cont = "suspendCallback"
    /\ lastEvent' = "suspend_system:rejected"
    /\ mockLog' = mockLog
    /\ task' = Unhandled(Notify(Quiet))
    /\ inflight' = RemoveAt(inflight, i)
    /\ LET shown == InvokeCatch(toast, timers)
       IN  toast' = shown.toast /\ timers' = shown.timers
    /\ UNCHANGED <<state, elements, sliderVars, backend, listening, activeElement,
                   now, undisturbed>>

\* closeWindow from the close button or the Escape key, up to its await.
CloseWindow ==
    /\ Len(inflight) < MaxInflight
    /\ lastEvent' = "closeWindow"
    /\ mockLog' = mockLog
    /\ task' = Quiet
    /\ inflight' = Append(inflight, Call("close_window", NoArg, "closeWindow"))
    /\ UNCHANGED <<state, elements, toast, sliderVars, timers, backend, listening,
                   activeElement, now, undisturbed>>

CloseWindowResolved(i) ==
    /\ inflight[i].cont = "closeWindow"
    /\ lastEvent' = "closeWindow:resolved"
    /\ mockLog' = mockLog
    /\ task' = Quiet
    /\ inflight' = RemoveAt(inflight, i)
    /\ UNCHANGED <<state, elements, toast, sliderVars, timers, backend, listening,
                   activeElement, now, undisturbed>>

CloseWindowRejected(i) ==
    /\ inflight[i].cont = "closeWindow"
    /\ lastEvent' = "closeWindow:rejected"
    /\ mockLog' = mockLog
    /\ task' = Notify(Quiet)
    /\ inflight' = RemoveAt(inflight, i)
    /\ LET shown == InvokeCatch(toast, timers)
       IN  toast' = shown.toast /\ timers' = shown.timers
    /\ UNCHANGED <<state, elements, sliderVars, backend, listening, activeElement,
                   now, undisturbed>>

(***************************************************************************)
(* Keyboard handling (app.js 559-587).  dispatchEvent runs the listeners   *)
(* synchronously: the input listener and then the change listener run      *)
(* within the key's own task.                                              *)
(***************************************************************************)
Keys == {"Escape", "ArrowUp", "ArrowDown"}

KeyStep == 5

ArrowUpValue(v) == Min(100, v + KeyStep)

ArrowDownValueUnclamped(el, v) == v - KeyStep

ArrowDownValue(el, v) == Max(IF el = "volumeSlider" THEN 0 ELSE 1, v - KeyStep)

\* One more arrow key pressed on the slider.
Pressed(log) == [log EXCEPT !.keys = @ + 1]

\* volumeSlider.value = value, then handleVolumeInput and handleVolumeChange.
KeyAdjustVolume(value) ==
    LET cleared == CancelPending(timers, "volume", volumeDebounceTimer)
    IN  /\ Len(cleared.volume) < MaxTimers
        /\ state' = [state EXCEPT !.volume = value]
        /\ elements' = [elements EXCEPT !.volumeSlider = value, !.volumeFill = value]
        /\ timers' = SetTimeout(cleared, "volume",
                                [remaining |-> DebounceDelay, value |-> value])
        /\ volumeDebounceTimer' = "live"
        /\ sliderLog.volume.keys < MaxKeyPresses
        /\ sliderLog' = [sliderLog EXCEPT !.volume = Pressed(Committed(@, value))]
        /\ UNCHANGED <<toast, brightnessDebounceTimer, inflight, backend, listening,
                       activeElement, now, undisturbed>>

\* brightnessSlider.value = value, then handleBrightnessInput and
\* handleBrightnessChange.
KeyAdjustBrightness(value) ==
    LET cleared == CancelPending(timers, "brightness", brightnessDebounceTimer)
    IN  /\ Len(cleared.brightness) < MaxTimers
        /\ state' = [state EXCEPT !.brightness = value]
        /\ elements' = [elements EXCEPT !.brightnessSlider = value,
                                        !.brightnessFill = value]
        /\ timers' = SetTimeout(cleared, "brightness",
                                [remaining |-> DebounceDelay, value |-> value])
        /\ brightnessDebounceTimer' = "live"
        /\ sliderLog.brightness.keys < MaxKeyPresses
        /\ sliderLog' = [sliderLog EXCEPT !.brightness = Pressed(Committed(@, value))]
        /\ UNCHANGED <<toast, volumeDebounceTimer, inflight, backend, listening,
                       activeElement, now, undisturbed>>

HandleKeyDown(key) ==
    \/ /\ key = "Escape"
       /\ CloseWindow
    \/ /\ key \in {"ArrowUp", "ArrowDown"}
       /\ lastEvent' = "handleKeyDown:" \o key
       /\ mockLog' = mockLog
       /\ task' = Quiet
       /\ LET adjusted(el) == IF key = "ArrowUp" THEN ArrowUpValue(elements[el])
                              ELSE ArrowDownValue(el, elements[el])
          IN  CASE activeElement = "volumeSlider" ->
                       KeyAdjustVolume(adjusted("volumeSlider"))
                [] activeElement = "brightnessSlider" ->
                       KeyAdjustBrightness(adjusted("brightnessSlider"))
                [] OTHER ->
                       UNCHANGED <<state, elements, toast, sliderVars, timers, inflight,
                                   backend, listening, activeElement, now, undisturbed>>

(***************************************************************************)
(* The toast's dismiss timer and the passage of time.                      *)
(***************************************************************************)
ToastDismiss(i) ==
    /\ i \in 1..Len(timers.toast)
    /\ Due(timers.toast[i])
    /\ lastEvent' = "toastDismiss"
    /\ mockLog' = mockLog
    /\ task' = Quiet
    /\ timers' = [timers EXCEPT !.toast = RemoveAt(@, i)]
    /\ toast' = [toast EXCEPT !.show = FALSE,
                              !.timer = HandleAfterFire(@, "toast", i)]
    /\ UNCHANGED <<state, elements, sliderVars, inflight, backend, listening, activeElement, now,
                   undisturbed>>

Elapsed(tm, d, within) ==
    [kind \in DOMAIN tm |->
        [i \in 1..Len(tm[kind]) |->
            [tm[kind][i] EXCEPT !.remaining = IF @ > within THEN @ ELSE Max(0, @ - d)]]]

\* The clock advances by one step, up to the horizon.  A timer set for longer
\* than the horizon cannot fall due before the clock stops: it is left as set.
Tick(step, horizon) ==
    /\ now + step <= horizon
    /\ now' = now + step
    /\ timers' = Elapsed(timers, step, horizon)
    /\ lastEvent' = "tick"
    /\ mockLog' = mockLog
    /\ task' = Quiet
    /\ UNCHANGED <<state, elements, toast, sliderVars, inflight, backend,
                   listening, activeElement, undisturbed>>

\* Where no step reads the clock: time passes, enough for every timer set for
\* `delay` or less to fall due; a timer set for longer is left as set.
Elapse(delay) ==
    /\ \E kind \in DOMAIN timers : \E i \in 1..Len(timers[kind]) :
           timers[kind][i].remaining \in 1..delay
    /\ timers' = Elapsed(timers, delay, delay)
    /\ lastEvent' = "tick"
    /\ mockLog' = mockLog
    /\ task' = Quiet
    /\ UNCHANGED <<state, elements, toast, sliderVars, inflight, backend,
                   listening, activeElement, now, undisturbed>>

(***************************************************************************)
(* Spec: the three guarded toggles and reconciliation, within a stretch of *)
(* time shorter than any timer's delay (no timer fires).                   *)
(***************************************************************************)
Next ==
    \/ ToggleWifi
    \/ ToggleBluetooth
    \/ ToggleNightLight
    \/ WindowShown
    \/ \E i \in 1..Len(inflight) : ToggleWifiResolved(i)
    \/ \E i \in 1..Len(inflight) : ToggleWifiRejected(i)
    \/ \E i \in 1..Len(inflight) : ToggleBluetoothResolved(i)
    \/ \E i \in 1..Len(inflight) : ToggleBluetoothRejected(i)
    \/ \E i \in 1..Len(inflight) : ToggleNightLightResolved(i)
    \/ \E i \in 1..Len(inflight) : ToggleNightLightRejected(i)
    \/ \E i \in 1..Len(inflight) : LoadResolved(i)
    \/ \E i \in 1..Len(inflight) : LoadRejected(i)

Spec == Init /\ [][Next]_vars

(***************************************************************************)
(* SpecWifi: the WiFi toggle, its deferred status fetch, reconciliation    *)
(* and the toast, with time passing.                                       *)
(***************************************************************************)
NextWifi ==
    \/ ToggleWifi
    \/ WindowShown
    \/ \E i \in 1..Len(inflight) : ToggleWifiResolved(i)
    \/ \E i \in 1..Len(inflight) : ToggleWifiRejected(i)
    \/ \E i \in 1..Len(inflight) : WifiRefreshResolved(i)
    \/ \E i \in 1..Len(inflight) : WifiRefreshRejected(i)
    \/ \E i \in 1..Len(inflight) : LoadResolved(i)
    \/ \E i \in 1..Len(inflight) : LoadRejected(i)
    \/ \E i \in 1..MaxTimers : WifiRefreshFire(i)
    \/ \E i \in 1..MaxTimers : ToastDismiss(i)
    \/ Elapse(ToastDuration)

SpecWifi == Init /\ [][NextWifi]_vars

(***************************************************************************)
(* SpecDebounce: the two sliders against a clock read in steps of a fifth  *)
(* of the debounce delay.                                                  *)
(***************************************************************************)
SliderSteps(inputs) ==
    \/ \E el \in Sliders : FocusSlider(el)
    \/ \E value \in inputs : HandleVolumeInput(value)
    \/ HandleVolumeChange
    \/ \E i \in 1..MaxTimers : VolumeDebounceFire(i)
    \/ \E i \in 1..Len(inflight) : SetVolumeResolved(i)
    \/ \E i \in 1..Len(inflight) : SetVolumeRejected(i)
    \/ \E i \in 1..Len(inflight) : GetVolumeResolved(i)
    \/ \E i \in 1..Len(inflight) : GetVolumeRejected(i)
    \/ \E i \in 1..Len(inflight) : GetMuteStatusResolved(i)
    \/ \E i \in 1..Len(inflight) : GetMuteStatusRejected(i)
    \/ \E value \in inputs : HandleBrightnessInput(value)
    \/ HandleBrightnessChange
    \/ \E i \in 1..MaxTimers : BrightnessDebounceFire(i)
    \/ \E i \in 1..Len(inflight) : SetBrightnessResolved(i)
    \/ \E i \in 1..Len(inflight) : SetBrightnessRejected(i)
    \/ \E i \in 1..Len(inflight) : GetBrightnessResolved(i)
    \/ \E i \in 1..Len(inflight) : GetBrightnessRejected(i)
    \/ \E i \in 1..Len(inflight) : LoadResolved(i)
    \/ \E i \in 1..Len(inflight) : LoadRejected(i)

NextDebounce ==
    \/ SliderSteps(DebounceInputs)
    \/ Tick(FineStep, MaxFineTicks * FineStep)

SpecDebounce == Init /\ [][NextDebounce]_vars

(***************************************************************************)
(* SpecSlider: the two sliders with every raw value, over stretches of     *)
(* time as long as the debounce delay (the toast's timer outlasts them).   *)
(***************************************************************************)
NextSlider ==
    \/ SliderSteps(RawInputs)
    \/ Elapse(DebounceDelay)

SpecSlider == Init /\ [][NextSlider]_vars

(***************************************************************************)
(* SpecMute: the mute button, reconciliation and the toast.                *)
(***************************************************************************)
NextMute ==
    \/ ToggleMute
    \/ WindowShown
    \/ \E i \in 1..Len(inflight) : ToggleMuteResolved(i)
    \/ \E i \in 1..Len(inflight) : ToggleMuteRejected(i)
    \/ \E i \in 1..Len(inflight) : LoadResolved(i)
    \/ \E i \in 1..Len(inflight) : LoadRejected(i)
    \/ \E i \in 1..MaxTimers : ToastDismiss(i)
    \/ Elapse(ToastDuration)

SpecMute == Init /\ [][NextMute]_vars

(***************************************************************************)
(* SpecSuspend: the suspend tile against a clock read in steps of a fifth  *)
(* of the suspend delay (the toast's timer outlasts the clock).            *)
(***************************************************************************)
NextSuspend ==
    \/ SuspendSystem
    \/ \E i \in 1..Len(inflight) : SuspendCloseResolved(i)
    \/ \E i \in 1..Len(inflight) : SuspendCloseRejected(i)
    \/ \E i \in 1..MaxTimers : SuspendFire(i)
    \/ \E i \in 1..Len(inflight) : SuspendSystemResolved(i)
    \/ \E i \in 1..Len(inflight) : SuspendSystemRejected(i)
    \/ \E i \in 1..Len(inflight) : LoadResolved(i)
    \/ \E i \in 1..Len(inflight) : LoadRejected(i)
    \/ Tick(SuspendStep, MaxFineTicks * SuspendStep)

SpecSuspend == Init /\ [][NextSuspend]_vars

(***************************************************************************)
(* SpecToast: the toast under failing mute toggles and loads, against a    *)
(* clock read in steps of a fifth of the toast's duration.                 *)
(***************************************************************************)
NextToast ==
    \/ ToggleMute
    \/ WindowShown
    \/ \E i \in 1..Len(inflight) : ToggleMuteResolved(i)
    \/ \E i \in 1..Len(inflight) : ToggleMuteRejected(i)
    \/ \E i \in 1..Len(inflight) : LoadResolved(i)
    \/ \E i \in 1..Len(inflight) : LoadRejected(i)
    \/ \E i \in 1..MaxTimers : ToastDismiss(i)
    \/ Tick(ToastStep, MaxFineTicks * ToastStep)

SpecToast == Init /\ [][NextToast]_vars

(***************************************************************************)
(* SpecSettle: the user moves and releases one slider once; no input       *)
(* arrives after the release.  Time passes, a timer that is due fires, and *)
(* the backend answers every call, one way or the other.                   *)
(***************************************************************************)
NoCommitYet == \A s \in DOMAIN sliderLog : ~sliderLog[s].happened

UserInput ==
    /\ NoCommitYet
    /\ \/ \E el \in Sliders : FocusSlider(el)
       \/ \E value \in DebounceInputs : HandleVolumeInput(value)
       \/ HandleVolumeChange
       \/ \E value \in DebounceInputs : HandleBrightnessInput(value)
       \/ HandleBrightnessChange

DebounceFires ==
    \/ \E i \in 1..MaxTimers : VolumeDebounceFire(i)
    \/ \E i \in 1..MaxTimers : BrightnessDebounceFire(i)

Settles ==
    \E i \in 1..Len(inflight) :
        \/ SetVolumeResolved(i) \/ SetVolumeRejected(i)
        \/ GetVolumeResolved(i) \/ GetVolumeRejected(i)
        \/ GetMuteStatusResolved(i) \/ GetMuteStatusRejected(i)
        \/ SetBrightnessResolved(i) \/ SetBrightnessRejected(i)
        \/ GetBrightnessResolved(i) \/ GetBrightnessRejected(i)
        \/ LoadResolved(i) \/ LoadRejected(i)

NextSettle ==
    \/ UserInput
    \/ DebounceFires
    \/ Settles
    \/ Elapse(DebounceDelay)

SpecSettle ==
    /\ Init /\ [][NextSettle]_vars
    /\ WF_vars(DebounceFires) /\ WF_vars(Settles) /\ WF_vars(Elapse(DebounceDelay))

(***************************************************************************)
(* SpecWifiClock: the WiFi toggle and its deferred status fetch against a  *)
(* clock read in steps of a fifth of the fetch's delay.                    *)
(***************************************************************************)
NextWifiClock ==
    \/ ToggleWifi
    \/ \E i \in 1..Len(inflight) : ToggleWifiResolved(i)
    \/ \E i \in 1..Len(inflight) : ToggleWifiRejected(i)
    \/ \E i \in 1..MaxTimers : WifiRefreshFire(i)
    \/ \E i \in 1..Len(inflight) : WifiRefreshResolved(i)
    \/ \E i \in 1..Len(inflight) : WifiRefreshRejected(i)
    \/ \E i \in 1..Len(inflight) : LoadResolved(i)
    \/ \E i \in 1..Len(inflight) : LoadRejected(i)
    \/ Tick(WifiStep, MaxFineTicks * WifiStep)

SpecWifiClock == Init /\ [][NextWifiClock]_vars

(***************************************************************************)
(* SpecEventual: the three toggles, reconciliation and the deferred WiFi   *)
(* fetch against a backend on which every call succeeds, executes its      *)
(* commands in any order and delivers the answers in any order.            *)
(***************************************************************************)
NextEventual ==
    \/ ToggleWifi
    \/ ToggleBluetooth
    \/ ToggleNightLight
    \/ WindowShown
    \/ \E i \in 1..Len(inflight) : BackendExecutes(i)
    \/ \E i \in 1..Len(inflight) : ToggleWifiResolved(i)
    \/ \E i \in 1..Len(inflight) : ToggleBluetoothResolved(i)
    \/ \E i \in 1..Len(inflight) : ToggleNightLightResolved(i)
    \/ \E i \in 1..Len(inflight) : LoadResolved(i)
    \/ \E i \in 1..MaxTimers : WifiRefreshFire(i)
    \/ \E i \in 1..Len(inflight) : WifiRefreshResolved(i)
    \/ Elapse(WifiRefreshDelay)

SpecEventual == Init /\ [][NextEventual]_vars

(***************************************************************************)
(* SpecKeys: the two sliders worked by drags to values near the ends of    *)
(* their domains and by the arrow keys, and the Escape key, while the      *)
(* backend answers every call with success (its failures are SpecSlider's).*)
(***************************************************************************)
KeyInputs == {3, 98}

NextKeys ==
    \/ \E el \in Sliders : FocusSlider(el)
    \/ \E value \in KeyInputs : HandleVolumeInput(value)
    \/ HandleVolumeChange
    \/ \E i \in 1..MaxTimers : VolumeDebounceFire(i)
    \/ \E i \in 1..Len(inflight) : SetVolumeResolved(i)
    \/ \E value \in KeyInputs : HandleBrightnessInput(value)
    \/ HandleBrightnessChange
    \/ \E i \in 1..MaxTimers : BrightnessDebounceFire(i)
    \/ \E i \in 1..Len(inflight) : SetBrightnessResolved(i)
    \/ \E i \in 1..Len(inflight) : LoadResolved(i)
    \/ \E key \in Keys : HandleKeyDown(key)
    \/ \E i \in 1..Len(inflight) : CloseWindowResolved(i)
    \/ Elapse(DebounceDelay)

SpecKeys == Init /\ [][NextKeys]_vars

(***************************************************************************)
(* The mock backend: mockInvoke, the function invoke falls back on when   *)
(* no Tauri bridge is available.  It is called directly here, with every  *)
(* command it knows and one it does not, and the calls are logged with    *)
(* what they returned.                                                     *)
(***************************************************************************)
Null == "null"

\* The object literal the function builds on entry, on every call.
mockState ==
    [volume |-> 50, muted |-> FALSE, brightness |-> 75,
     wifi |-> TRUE, bluetooth |-> FALSE, nightLight |-> FALSE]

MockNetwork(m) ==
    [wifi_enabled |-> m.wifi, wifi_connected |-> TRUE, wifi_ssid |-> "MockNetwork",
     bluetooth_enabled |-> m.bluetooth, bluetooth_connected |-> FALSE]

\* One call: what it returns, and the local object as the call leaves it
\* (the object goes out of scope when the function returns).
mockInvoke(command, args) ==
    LET m == mockState
        Done(result, after) == [result |-> result, mockState |-> after]
    IN  CASE command = "get_all_states" ->
                 Done([volume |-> [volume |-> m.volume, muted |-> m.muted],
                       brightness |-> [brightness |-> m.brightness, max_brightness |-> 100],
                       network |-> MockNetwork(m),
                       display |-> [night_light_enabled |-> m.nightLight]], m)
          [] command = "get_volume" -> Done(m.volume, m)
          [] command = "set_volume" ->
                 Done(args.value, [m EXCEPT !.volume = args.value])
          [] command = "toggle_mute" ->
                 Done(~m.muted, [m EXCEPT !.muted = ~m.muted])
          [] command = "get_mute_status" -> Done(m.muted, m)
          [] command = "get_brightness" -> Done(m.brightness, m)
          [] command = "set_brightness" ->
                 Done(args.value, [m EXCEPT !.brightness = args.value])
          [] command = "get_wifi_status" -> Done(MockNetwork(m), m)
          [] command = "set_wifi_enabled" ->
                 Done(args.enabled, [m EXCEPT !.wifi = args.enabled])
          [] command = "get_bluetooth_status" -> Done(m.bluetooth, m)
          [] command = "set_bluetooth_enabled" ->
                 Done(args.enabled, [m EXCEPT !.bluetooth = args.enabled])
          [] command = "get_night_light_status" -> Done(m.nightLight, m)
          [] command = "set_night_light_enabled" ->
                 Done(args.enabled, [m EXCEPT !.nightLight = args.enabled])
          [] command = "suspend_system" -> Done(Null, m)
          [] command = "close_window" -> Done(Null, m)
          [] OTHER -> Done(Null, m)

MockCommands ==
    {"get_all_states", "get_volume", "set_volume", "toggle_mute", "get_mute_status",
     "get_brightness", "set_brightness", "get_wifi_status", "set_wifi_enabled",
     "get_bluetooth_status", "set_bluetooth_enabled", "get_night_light_status",
     "set_night_light_enabled", "suspend_system", "close_window", "unknown_command"}

MockValues == {0, 30, 100}

MockArgs(command) ==
    CASE command \in {"set_volume", "set_brightness"} -> [value : MockValues]
      [] command \in {"set_wifi_enabled", "set_bluetooth_enabled",
                      "set_night_light_enabled"} -> [enabled : BOOLEAN]
      [] OTHER -> {NoArg}

MockInvokeCall(command, args) ==
    /\ Len(mockLog) < MaxMockCalls
    /\ mockLog' = Append(mockLog, [command |-> command, args |-> args,
                                   result |-> mockInvoke(command, args).result])
    /\ lastEvent' = "mockInvoke"
    /\ task' = Quiet
    /\ UNCHANGED <<state, elements, toast, volumeDebounceTimer, brightnessDebounceTimer,
                   timers, inflight, backend, listening, now, sliderLog, activeElement,
                   undisturbed>>

NextMock == \E command \in MockCommands : \E args \in MockArgs(command) :
                MockInvokeCall(command, args)

SpecMock == Init /\ [][NextMock]_vars

(***************************************************************************)
(* Properties of the guarded toggles.                                      *)
(***************************************************************************)
ToggleCommands == {"set_wifi_enabled", "set_bluetooth_enabled", "set_night_light_enabled"}

Toggles ==
    { [op |-> "wifi", handler |-> "toggleWifi"],
      [op |-> "bluetooth", handler |-> "toggleBluetooth"],
      [op |-> "nightLight", handler |-> "toggleNightLight"] }

Mirrored(st, op) ==
    CASE op = "wifi" -> st.wifiEnabled
      [] op = "bluetooth" -> st.bluetoothEnabled
      [] op = "nightLight" -> st.nightLightEnabled

Tile(el, op) ==
    CASE op = "wifi" -> el.wifiTile
      [] op = "bluetooth" -> el.bluetoothTile
      [] op = "nightLight" -> el.nightLightTile

\* C1: for WiFi, Bluetooth and NightLight, at most one set_*_enabled call of the
\* same kind is in flight in every reachable state: a toggle invoked while the
\* first one's call has not resolved dispatches nothing.
C1_OneSetCallInFlight ==
    \A cmd \in ToggleCommands : Count(inflight, cmd) <= 1

C1_Witness ==
    /\ lastEvent = "toggleWifi:ignored"
    /\ Count(inflight, "set_wifi_enabled") = 1

\* C2: when the backend call of a toggle fails and nothing wrote the mirrored
\* value since the toggle was invoked, the mirrored value and the tile's
\* displayed enabled state are, after the toggle settled, the value the control
\* had before the toggle.
C2_FailedToggleRestoresPrior ==
    [][\A t \in Toggles : \A prior \in BOOLEAN :
          (lastEvent' = t.handler \o ":rejected" /\ <<t.op, prior>> \in undisturbed)
          => (Mirrored(state', t.op) = prior /\ Tile(elements', t.op) = prior)]_vars

\* C5: a toggle invoked while its kind is pending changes nothing: the mirrored
\* values, the pending flags, what the tiles display and the calls in flight
\* (as well as the toast, the timers and the backend) are the same after it.
C5_PendingToggleChangesNothing ==
    [][\A t \in Toggles :
          (lastEvent' \in {t.handler, t.handler \o ":ignored"}
              /\ t.op \in state.pendingOperations)
          => UNCHANGED <<state, elements, inflight, toast, timers, backend,
                         sliderVars, listening, activeElement>>]_vars

C5_Witness ==
    /\ lastEvent = "toggleBluetooth:ignored"
    /\ "bluetooth" \in state.pendingOperations
    /\ Len(inflight) = 2

(***************************************************************************)
(* Properties of the WiFi status display.                                  *)
(***************************************************************************)
ShowsSsid == elements.wifiStatus \in Ssids \ {NoSsid}

\* C8: whenever the WiFi status text is the SSID, the mirror has
\* wifiEnabled = TRUE and wifiConnected = TRUE.
C8_SsidOnlyWhenEnabledAndConnected ==
    ShowsSsid => (state.wifiEnabled /\ state.wifiConnected)

\* C9: after reconcileAll or a WiFi status fetch rendered the mirror, the status
\* text is the SSID if enabled, connected and an SSID is present, "On" if
\* enabled otherwise, and "Off" if not enabled.
C9_WifiStatusTextRendered ==
    [][lastEvent' \in {"loadInitialState:resolved", "wifiRefresh:resolved"}
          => LET enabled == state'.wifiEnabled
                 associated == state'.wifiConnected /\ state'.wifiSsid \notin {NoSsid, ""}
             IN  /\ (enabled /\ associated) => elements'.wifiStatus = state'.wifiSsid
                 /\ (enabled /\ ~associated) => elements'.wifiStatus = "On"
                 /\ ~enabled => elements'.wifiStatus = "Off"]_vars

C9_Witness ==
    /\ lastEvent = "wifiRefresh:resolved"
    /\ ~state.wifiEnabled /\ state.wifiConnected /\ state.wifiSsid = "Home"
    /\ elements.wifiStatus = "Off"

(***************************************************************************)
(* Properties of the sliders and the mute button.                          *)
(***************************************************************************)
SliderOf ==
    [volume |-> [change |-> "handleVolumeChange", fire |-> "volumeDebounce",
                 cmd |-> "set_volume", fetch |-> "get_volume"],
     brightness |-> [change |-> "handleBrightnessChange", fire |-> "brightnessDebounce",
                     cmd |-> "set_brightness", fetch |-> "get_brightness"]]

Args(cmd) == {inflight[i].arg : i \in {j \in 1..Len(inflight) : inflight[j].cmd = cmd}}

C6_DebounceCoalesces ==
    [][\A s \in DOMAIN SliderOf :
          LET log == sliderLog[s]
          IN  /\ (lastEvent' = SliderOf[s].change /\ log.happened
                     /\ now - log.at < DebounceDelay)
                    => log.calls = 0
              /\ lastEvent' = SliderOf[s].fire
                    => /\ log.happened /\ log.calls = 0
                       /\ sliderLog'[s].calls = 1
                       /\ inflight'[Len(inflight')].cmd = SliderOf[s].cmd
                       /\ inflight'[Len(inflight')].arg = log.value
                       /\ now >= log.at + DebounceDelay
                       /\ timers'[s] = << >>]_vars

C6_Witness ==
    /\ lastEvent = "volumeDebounce"
    /\ sliderLog.volume.burst = 3
    /\ sliderLog.volume.at = 2 * FineStep
    /\ sliderLog.volume.calls = 1
    /\ now = 2 * FineStep + DebounceDelay
    /\ Args("set_volume") = {150}

\* C7: the mirrored volume lies in 0..100 and the mirrored brightness in
\* 1..100, and so does every argument of set_volume and of set_brightness.
C7_ValuesWithinDomain ==
    /\ state.volume \in 0..100
    /\ state.brightness \in 1..100
    /\ Args("set_volume") \subseteq 0..100
    /\ Args("set_brightness") \subseteq 1..100

\* C10: a failed set call of a slider issues exactly one fetch of that
\* control's value and shows an error message; when the fetch succeeds the
\* mirrored value is the one the backend returned.
C10_FailedSetReconciles ==
    [][\A s \in DOMAIN SliderOf :
          /\ lastEvent' = SliderOf[s].cmd \o ":rejected"
                => /\ Count(inflight', SliderOf[s].fetch)
                         = Count(inflight, SliderOf[s].fetch) + 1
                   /\ toast'.show /\ toast'.type = "error"
          /\ lastEvent' = SliderOf[s].fetch \o ":resolved"
                => state'[s] = backend[s]]_vars

C10_Witness ==
    /\ lastEvent = "get_brightness:resolved"
    /\ sliderLog.brightness.value = 150
    /\ state.brightness = 75
    /\ elements.brightnessSlider = 75
    /\ toast.type = "error"

(***************************************************************************)
(* Properties of reconciliation.                                           *)
(***************************************************************************)
\* C11: when get_all_states succeeded, right after loadInitialState applied it
\* every mirrored field equals the corresponding field of the snapshot the
\* call returned, whatever the mirror and the tiles held before.
C11_ReconcileAllOverwritesMirror ==
    [][lastEvent' = "loadInitialState:resolved"
          => LET allStates == task'.returned[1]
             IN  /\ state'.volume = allStates.volume.volume
                 /\ state'.muted = allStates.volume.muted
                 /\ state'.brightness = allStates.brightness.brightness
                 /\ state'.wifiEnabled = allStates.network.wifi_enabled
                 /\ state'.wifiConnected = allStates.network.wifi_connected
                 /\ state'.wifiSsid = allStates.network.wifi_ssid
                 /\ state'.bluetoothEnabled = allStates.network.bluetooth_enabled
                 /\ state'.nightLightEnabled = allStates.display.night_light_enabled]_vars

C11_Witness ==
    /\ lastEvent = "loadInitialState:resolved"
    /\ IsPending("bluetooth")
    /\ \E i \in 1..Len(inflight) :
          inflight[i].cmd = "set_bluetooth_enabled" /\ inflight[i].arg = TRUE
    /\ ~state.bluetoothEnabled
    /\ ~elements.bluetoothTile
    /\ state.brightness = 75

MirrorFields ==
    {"volume", "muted", "brightness", "wifiEnabled", "wifiConnected", "wifiSsid",
     "bluetoothEnabled", "nightLightEnabled"}

Mirror(st) == [f \in MirrorFields |-> st[f]]

ReconcileFailures ==
    {"loadInitialState:rejected", "get_volume:rejected", "get_mute_status:rejected",
     "get_brightness:rejected"}

\* C12: when a call made by a reconciliation fails (get_all_states, get_volume,
\* get_mute_status, get_brightness), that reconciliation has changed no field
\* of the mirror, neither in the failing step nor in a step before it, and an
\* error message is shown.
C12_FailedReconciliationKeepsMirror ==
    [][lastEvent' \in ReconcileFailures
          => /\ Mirror(state') = Mirror(state)
             /\ toast'.show /\ toast'.type = "error"
             /\ lastEvent' = "get_mute_status:rejected"
                   => \E i \in 1..Len(inflight) :
                         /\ inflight[i].cmd = "get_mute_status"
                         /\ inflight' = RemoveAt(inflight, i)
                         /\ ~inflight[i].changed]_vars

\* C13: when a reconcileAll has written the mirror while a toggle's call was
\* in flight, the mirrored value of that kind is, after the toggle settled
\* (resolved or rejected), still the value the reconciliation wrote.
C13_ReconciledValueSurvivesToggle ==
    [][\A t \in Toggles :
          (/\ lastEvent' \in {t.handler \o ":resolved", t.handler \o ":rejected"}
           /\ IsPending(t.op)
           /\ ~ \E prior \in BOOLEAN : <<t.op, prior>> \in undisturbed)
          => Mirrored(state', t.op) = Mirrored(state, t.op)]_vars

(***************************************************************************)
(* Properties of error handling.                                           *)
(***************************************************************************)
\* C14: every failure of a backend call is caught by the function that issued
\* the call: no task ends in a rejection that nothing handles.
C14_NoUnhandledRejection == ~task.unhandledrejection

(***************************************************************************)
(* Properties of suspend.                                                  *)
(***************************************************************************)
SuspendCloseSettled ==
    {"suspendSystem:close_window:resolved", "suspendSystem:close_window:rejected"}

\* C18: suspendSystem first issues close_window alone; the timer for
\* suspend_system is set when close_window has settled, resolved or rejected,
\* and only then; suspend_system is dispatched by that timer's callback only,
\* no earlier than the suspend delay after close_window settled.
C18_SuspendAfterCloseSettled ==
    [][/\ lastEvent' = "suspendSystem"
             => /\ Count(inflight', "close_window") = Count(inflight, "close_window") + 1
                /\ timers'.suspend = timers.suspend
       /\ lastEvent' \in SuspendCloseSettled
             => /\ Count(inflight', "close_window") = Count(inflight, "close_window") - 1
                /\ Len(timers'.suspend) = Len(timers.suspend) + 1
                /\ timers'.suspend[Len(timers'.suspend)].remaining = SuspendDelay
       /\ Len(timers'.suspend) > Len(timers.suspend)
             => lastEvent' \in SuspendCloseSettled
       /\ Count(inflight', "suspend_system") > Count(inflight, "suspend_system")
             => /\ lastEvent' = "suspendCallback"
                /\ now >= task'.fired[1].setAt + SuspendDelay
                /\ Len(timers'.suspend) = Len(timers.suspend) - 1]_vars

C18_Witness ==
    /\ lastEvent = "suspendCallback"
    /\ ~task.fired[1].closed
    /\ now = task.fired[1].setAt + SuspendDelay
    /\ Count(inflight, "suspend_system") = 1

\* C19: the suspend tile clicked a second time before the first suspend has
\* completed fires one action only: one suspend_system call is made.
C19_OneSuspendCall == Count(inflight, "suspend_system") <= 1

(***************************************************************************)
(* Properties of the toast.                                                *)
(***************************************************************************)
\* C16: at most one dismiss timer is alive in every reachable state; a call of
\* showToast shows its message at once and leaves its own timer, set for the
\* full duration, as the only one; the message is dismissed by a timer's
\* callback only, no earlier than the duration after the latest call.
C16_ToastLatestWins ==
    [][/\ Len(timers'.toast) <= 1
       /\ task'.notify > 0
             => /\ toast'.show /\ toast'.timer = "live" /\ toast'.shownAt = now
                /\ timers'.toast = << [remaining |-> ToastDuration] >>
       /\ (toast.show /\ ~toast'.show)
             => /\ lastEvent' = "toastDismiss"
                /\ now >= toast.shownAt + ToastDuration
                /\ timers'.toast = << >>]_vars

C16_Witness ==
    /\ lastEvent = "toastDismiss"
    /\ ~toast.show
    /\ toast.shownAt = 2 * ToastStep
    /\ now = 2 * ToastStep + ToastDuration

Rejections ==
    {"closeWindow:rejected", "get_brightness:rejected", "get_mute_status:rejected",
     "get_volume:rejected", "loadInitialState:rejected", "set_brightness:rejected",
     "set_volume:rejected", "suspendSystem:close_window:rejected",
     "suspend_system:rejected", "toggleBluetooth:rejected", "toggleMute:rejected",
     "toggleNightLight:rejected", "toggleWifi:rejected", "wifiRefresh:rejected"}

C15_EventuallyConfirmed ==
    \A s \in DOMAIN SliderOf : sliderLog[s].dispatched ~> (state[s] = backend[s])

(***************************************************************************)
(* Properties of the keyboard.                                             *)
(***************************************************************************)
ControlOf == [volumeSlider |-> "volume", brightnessSlider |-> "brightness"]

Lowest == [volume |-> 0, brightness |-> 1]

Pending(s) == {timers[s][i].value : i \in 1..Len(timers[s])}

\* An arrow key's task has just run on the slider that has the focus.
ArrowStep(key) ==
    /\ lastEvent' = "handleKeyDown:" \o key
    /\ activeElement \in Sliders

\* The step stored `value` as a raw input does (slider, fill, mirror) and
\* committed it as a change event does (the one pending debounce timer
\* carries it, set for the whole delay).
StoredAndCommitted(el, value) ==
    LET s == ControlOf[el]
    IN  /\ elements'[el] = value
        /\ state'[s] = value
        /\ timers'[s] = << [remaining |-> DebounceDelay, value |-> value] >>
        /\ sliderLog'[s].happened
        /\ sliderLog'[s].value = value

\* C20: ArrowUp moves the focused slider to min(100, v + 5); ArrowDown moves
\* it to max(0, v - 5) for volume and max(1, v - 5) for brightness; the key's
\* step stores the value and commits it as an input and a change event do; and
\* with every drag in the domain, the mirrored values, the values waiting in
\* debounce timers and the arguments of the set calls all stay in the domain.
C20_ArrowKeysClampToDomain ==
    /\ [][LET el == activeElement
              v == elements[el]
              lo == Lowest[ControlOf[el]]
          IN  /\ ArrowStep("ArrowUp") =>
                     StoredAndCommitted(el, IF v + 5 > 100 THEN 100 ELSE v + 5)
              /\ ArrowStep("ArrowDown") =>
                     StoredAndCommitted(el, IF v - 5 < lo THEN lo ELSE v - 5)]_vars
    /\ [](\A s \in DOMAIN Lowest :
              /\ state[s] \in Lowest[s]..100
              /\ Pending(s) \subseteq Lowest[s]..100
              /\ Args(SliderOf[s].cmd) \subseteq Lowest[s]..100)

\* ArrowDown has stopped the brightness at 1 and the set call carrying 1 is on
\* its way, after ArrowUp had stopped it at 100.
C20_Witness ==
    /\ lastEvent = "brightnessDebounce"
    /\ activeElement = "brightnessSlider"
    /\ state.brightness = 1
    /\ Args("set_brightness") = {1, 100}

(***************************************************************************)
(* Properties of the pending flags and the optimistic write.               *)
(***************************************************************************)
SetCommand ==
    [wifi |-> "set_wifi_enabled", bluetooth |-> "set_bluetooth_enabled",
     nightLight |-> "set_night_light_enabled"]

HandlerOf ==
    [wifi |-> "toggleWifi", bluetooth |-> "toggleBluetooth",
     nightLight |-> "toggleNightLight"]

\* C21: for WiFi, Bluetooth and NightLight the pending flag is set exactly
\* while the set call of that kind is in flight: an accepted toggle sets it,
\* the settling of the call, resolved or rejected, clears it, and a toggle
\* invoked after that is accepted.
C21_PendingWhileInFlight ==
    /\ [](\A op \in DOMAIN SetCommand :
              IsPending(op) <=> Count(inflight, SetCommand[op]) = 1)
    /\ [][\A op \in DOMAIN SetCommand :
              /\ lastEvent' \in {HandlerOf[op] \o ":resolved", HandlerOf[op] \o ":rejected"}
                    => IsPending(op) /\ op \notin state'.pendingOperations
              /\ (lastEvent' = HandlerOf[op] /\ ~IsPending(op))
                    => /\ op \in state'.pendingOperations
                       /\ Count(inflight', SetCommand[op]) = 1]_vars

\* A NightLight toggle is accepted after an earlier one failed: the mirror
\* holds what only a failed toggle leaves behind.
C21_Witness ==
    /\ lastEvent = "toggleNightLight"
    /\ IsPending("nightLight")
    /\ state.nightLightEnabled /\ ~backend.nightLight
    /\ toast.show /\ toast.type = "error"

\* C23: a toggle invoked while its kind is not pending sets the pending flag
\* and, in the same step, before its backend call settles, writes the negation
\* of the mirrored value into the mirror and into what the tile displays.
C23_AcceptedToggleWritesOptimistically ==
    [][\A op \in DOMAIN SetCommand :
          (lastEvent' = HandlerOf[op] /\ ~IsPending(op))
              => /\ op \in state'.pendingOperations
                 /\ Mirrored(state', op) = ~Mirrored(state, op)
                 /\ Tile(elements', op) = ~Mirrored(state, op)]_vars

\* The argument of the set call of a kind that is in flight.
SetCallArg(calls, op) ==
    calls[CHOOSE i \in 1..Len(calls) : calls[i].cmd = SetCommand[op]].arg

\* C24: an accepted toggle sends the negation of the mirrored value; when its
\* call succeeds and nothing wrote the mirrored value since the toggle was
\* invoked, the argument that was sent is the negation of the value the toggle
\* found, and the mirrored value after the settling is that argument.
C24_SuccessfulToggleConfirmsSent ==
    [][\A op \in DOMAIN SetCommand :
          /\ (lastEvent' = HandlerOf[op] /\ ~IsPending(op))
                => SetCallArg(inflight', op) = ~Mirrored(state, op)
          /\ \A prior \in BOOLEAN :
                (lastEvent' = HandlerOf[op] \o ":resolved" /\ <<op, prior>> \in undisturbed)
                => /\ SetCallArg(inflight, op) = ~prior
                   /\ Mirrored(state', op) = ~prior
                   /\ backend'[op] = ~prior]_vars

\* A Bluetooth toggle from on to off has succeeded.
C24_Witness ==
    /\ lastEvent = "toggleBluetooth:resolved"
    /\ ~state.bluetoothEnabled /\ ~backend.bluetooth
    /\ ~elements.bluetoothTile
    /\ ~IsPending("bluetooth")

(***************************************************************************)
(* Properties of the debounce timers.                                      *)
(***************************************************************************)
\* C22: when the debounce timer of a slider fires, the argument of the set
\* call it dispatches is the value the mirror holds for that slider at that
\* moment.
C22_FireSendsCurrentValue ==
    [][\A s \in DOMAIN SliderOf :
          lastEvent' = SliderOf[s].fire
              => inflight'[Len(inflight')].arg = state[s]]_vars

DebounceHandle == [volume |-> volumeDebounceTimer, brightness |-> brightnessDebounceTimer]

\* C26: for each slider at most one debounce timer is alive in every reachable
\* state, and it is the one the latest change event started: the handle names
\* it, it carries that event's value and no set call was dispatched since.
\* The timer of an earlier change event is gone and cannot dispatch.
C26_OneLiveDebounceTimer ==
    \A s \in DOMAIN SliderOf :
        /\ Len(timers[s]) <= 1
        /\ Len(timers[s]) = 1
              => /\ DebounceHandle[s] = "live"
                 /\ sliderLog[s].happened
                 /\ sliderLog[s].calls = 0
                 /\ timers[s][1].value = sliderLog[s].value

\* A second change event, less than the debounce delay after the first, has
\* replaced the first one's timer by a fresh one set for the whole delay.
C26_Witness ==
    /\ lastEvent = "handleBrightnessChange"
    /\ sliderLog.brightness.burst = 2
    /\ now = 2 * FineStep
    /\ timers.brightness = << [remaining |-> DebounceDelay, value |-> 150] >>
    /\ brightnessDebounceTimer = "live"

(***************************************************************************)
(* Properties of the deferred WiFi status fetch.                           *)
(***************************************************************************)
\* C25: a WiFi toggle that succeeded arms one timer of 1000 for the status
\* fetch and a failed one arms none; nothing else arms it, so the fetch never
\* repeats itself; get_wifi_status is dispatched only by that timer's
\* callback, no earlier than 1000 after the success; and its result overwrites
\* wifiEnabled, wifiConnected and wifiSsid and renders the status text, which
\* is "On" for an answer of enabled and not connected.
C25_OneDeferredWifiFetch ==
    [][/\ lastEvent' = "toggleWifi:resolved"
             => /\ Len(timers'.wifi) = Len(timers.wifi) + 1
                /\ timers'.wifi[Len(timers'.wifi)].remaining = WifiRefreshDelay
       /\ Len(timers'.wifi) > Len(timers.wifi)
             => lastEvent' = "toggleWifi:resolved"
       /\ lastEvent' = "toggleWifi:rejected"
             => timers'.wifi = timers.wifi
       /\ Count(inflight', "get_wifi_status") > Count(inflight, "get_wifi_status")
             => /\ lastEvent' = "wifiRefresh"
                /\ Count(inflight', "get_wifi_status")
                      = Count(inflight, "get_wifi_status") + 1
                /\ now >= task'.fired[1].setAt + WifiRefreshDelay
                /\ Len(timers'.wifi) = Len(timers.wifi) - 1
       /\ lastEvent' = "wifiRefresh:resolved"
             => LET networkState == task'.returned[1]
                IN  /\ state'.wifiEnabled = networkState.wifi_enabled
                    /\ state'.wifiConnected = networkState.wifi_connected
                    /\ state'.wifiSsid = networkState.wifi_ssid
                    /\ (networkState.wifi_enabled /\ ~networkState.wifi_connected)
                          => elements'.wifiStatus = "On"
                    /\ elements'.wifiTile = networkState.wifi_enabled]_vars

\* The fetch armed by a toggle that succeeded at time 0 has answered at 1000
\* with enabled and not connected: the status reads "On".
C25_Witness ==
    /\ lastEvent = "wifiRefresh:resolved"
    /\ now = WifiRefreshDelay
    /\ state.wifiEnabled /\ ~state.wifiConnected
    /\ elements.wifiStatus = "On"
    /\ timers.wifi = << >>

\* C29: while a WiFi toggle is pending the deferred status fetch of an earlier
\* toggle does not write the mirror: its answer is not applied, and wifiEnabled
\* is changed only by the settling of the pending toggle or by a reconcileAll.
C29_FetchSparesPendingToggle ==
    [][IsPending("wifi")
          => /\ lastEvent' # "wifiRefresh:resolved"
             /\ state'.wifiEnabled # state.wifiEnabled
                   => lastEvent' \in {"toggleWifi:resolved", "toggleWifi:rejected",
                                      "loadInitialState:resolved"}]_vars

(***************************************************************************)
(* Frame properties.                                                       *)
(***************************************************************************)
InputOf ==
    [volume |-> [handler |-> "handleVolumeInput", slider |-> "volumeSlider",
                 fill |-> "volumeFill"],
     brightness |-> [handler |-> "handleBrightnessInput", slider |-> "brightnessSlider",
                     fill |-> "brightnessFill"]]

\* C27: an input event of a slider writes the slider's value into the mirror
\* and into the fill in the same step and changes nothing else: no call is
\* dispatched, no timer is set or cleared, no other mirrored value, no pending
\* flag, no other element, nor the toast or the backend changes.
C27_InputWritesValueOnly ==
    [][\A s \in DOMAIN InputOf :
          lastEvent' = InputOf[s].handler
              => LET value == elements'[InputOf[s].slider]
                 IN  /\ state' = [state EXCEPT ![s] = value]
                     /\ elements' = [elements EXCEPT ![InputOf[s].slider] = value,
                                                     ![InputOf[s].fill] = value]
                     /\ UNCHANGED <<inflight, timers, volumeDebounceTimer,
                                    brightnessDebounceTimer, toast, backend,
                                    listening, activeElement>>]_vars

\* An input event moved the volume to 0 while the timer of an earlier change
\* event and a set call stay as they were.
C27_Witness ==
    /\ lastEvent = "handleVolumeInput"
    /\ state.volume = 0 /\ elements.volumeFill = 0
    /\ Len(timers.volume) = 1 /\ timers.volume[1].value = 150
    /\ Count(inflight, "set_volume") = 1

\* The failures of calls whose caller handles the rejection by logging it or
\* not at all: what such a step changes, invoke itself has changed.
LoggedFailures ==
    {"get_volume:rejected", "get_mute_status:rejected", "get_brightness:rejected",
     "toggleMute:rejected", "closeWindow:rejected", "wifiRefresh:rejected",
     "suspend_system:rejected"}

\* C28: invoke changes nothing of the core's state, whether the call succeeds
\* or fails: where the caller itself does nothing on a rejection, the step in
\* which the call is rejected leaves the mirror, the pending flags, the timers
\* and the toast as they were; and no step dispatches more than one call.
C28_InvokeHasNoEffect ==
    [][/\ lastEvent' \in LoggedFailures => UNCHANGED <<state, timers, toast>>
       /\ Len(inflight') <= Len(inflight) + 1]_vars

(***************************************************************************)
(* Properties of convergence.                                              *)
(***************************************************************************)
\* Every call has been answered and every deferred fetch has run.
Quiescent == inflight = << >> /\ timers.wifi = << >>

\* C30: with every backend call succeeding, once all calls in flight and all
\* timers have completed the mirrored value of WiFi, Bluetooth and NightLight
\* equals the value the backend holds, whatever the order in which toggles and
\* fetches were executed and answered.
C30_QuiescentMirrorsBackend ==
    Quiescent => \A op \in DOMAIN SetCommand : Mirrored(state, op) = backend[op]

(***************************************************************************)
(* Properties of overlapping reconciliations.                              *)
(***************************************************************************)
\* C31: when two get_all_states calls overlap, the mirror ends with the
\* snapshot of the call issued last whatever the order of the answers: the
\* answer of a call that arrives after the answer of a call issued later is
\* not applied over it, the mirrored values stay as they are.
C31_LatestIssuedSnapshotWins ==
    [][(lastEvent' = "loadInitialState:resolved" /\ task'.late)
          => Mirror(state') = Mirror(state)]_vars

\* C32: the loading indicator is on exactly while a get_all_states call is in
\* flight, also when reconciliations overlap or fail.
C32_LoadingCoversReconciliation ==
    state.isLoading <=> Count(inflight, "get_all_states") > 0

(***************************************************************************)
(* Properties of the display.                                              *)
(***************************************************************************)
\* C33: in every reachable state, for WiFi, Bluetooth and NightLight, when the
\* kind is not pending the tile displays the mirrored value.
C33_TileShowsMirrorWhenIdle ==
    \A op \in DOMAIN SetCommand :
        ~IsPending(op) => Tile(elements, op) = Mirrored(state, op)

(***************************************************************************)
(* Properties of the mute button.                                          *)
(***************************************************************************)
\* C34: toggleMute is not optimistic: invoking it changes neither the mirrored
\* mute state nor the mute icon; when toggle_mute succeeds both become the
\* value the backend returned, the negation of what it held; when it fails
\* both stay as they were.
C34_MuteFollowsBackend ==
    [][/\ lastEvent' = "toggleMute"
             => /\ state'.muted = state.muted
                /\ elements'.mutedIcon = elements.mutedIcon
       /\ lastEvent' = "toggleMute:resolved"
             => /\ backend'.muted = ~backend.muted
                /\ state'.muted = backend'.muted
                /\ elements'.mutedIcon = backend'.muted
       /\ lastEvent' = "toggleMute:rejected"
             => /\ state'.muted = state.muted
                /\ elements'.mutedIcon = elements.mutedIcon]_vars

\* A toggle_mute call failed after an earlier one had muted the sound: the
\* mirror and the icon still say muted.
C34_Witness ==
    /\ lastEvent = "toggleMute:rejected"
    /\ state.muted /\ elements.mutedIcon /\ backend.muted
    /\ toast.show /\ toast.type = "error"

(***************************************************************************)
(* Properties of the mock backend.                                         *)
(***************************************************************************)
MatchingGet ==
    [set_volume |-> "get_volume", set_brightness |-> "get_brightness",
     set_wifi_enabled |-> "get_wifi_status",
     set_bluetooth_enabled |-> "get_bluetooth_status",
     set_night_light_enabled |-> "get_night_light_status"]

Sent(call) ==
    IF call.command \in {"set_volume", "set_brightness"} THEN call.args.value
    ELSE call.args.enabled

Got(call) ==
    IF call.command = "get_wifi_status" THEN call.result.wifi_enabled ELSE call.result

\* C35: the mock backend keeps its state across calls: a set call followed
\* by the matching get query returns the value that was set, and two
\* consecutive toggle_mute calls return opposite values.
C35_MockKeepsState ==
    \A i \in 1..(Len(mockLog) - 1) :
        LET first == mockLog[i]
            second == mockLog[i + 1]
        IN  /\ (/\ first.command \in DOMAIN MatchingGet
                /\ second.command = MatchingGet[first.command])
               => Got(second) = Sent(first)
            /\ (first.command = "toggle_mute" /\ second.command = "toggle_mute")
               => second.result = ~first.result

====
